---------------------------- MODULE Spec2Model ----------------------------
(***************************************************************************)
(* A model of the Kridha scoring engine (src/engine): the seven-layer      *)
(* score_garment pipeline with its sixteen generic and four type-specific  *)
(* principle scorers, the fabric gate, the garment-type router, the        *)
(* body-garment translator, the goal scorer, the context modifiers, and    *)
(* the process-wide rule-registry singleton.                               *)
(*                                                                         *)
(* Numbers.  The engine computes in floating point; the model computes in  *)
(* fixed point, with one unit per kind of quantity:                        *)
(*   scores, weights, ratios, cling risk     1/10000                       *)
(*   confidences, zone concerns, lightness,                                *)
(*   sheen, friction, expansion rate         1/100                         *)
(*   body lengths and circumferences         1/100 inch                    *)
(*   arm geometry inside translate_sleeve    1/1000 inch                   *)
(*   stretch                                 1/10 percent                  *)
(*   display scores (0..10 scale)            1/10000                       *)
(*   leg ratios and the golden ratio         1/100000                      *)
(*   goal verdict scores                     1/1000                        *)
(*   goal weights, overall_score             1/10                          *)
(*   context deltas, result confidence       1/100                         *)
(* An absent Optional number is -1, an absent Optional string is "none",   *)
(* an absent context key is "<absent>", and a value that may be None is a  *)
(* sequence of length zero or one.                                         *)
(* The iteration order of a set of strings depends on the process's hash   *)
(* seed; hashOrder is that order, fixed for the life of a process.         *)
(* Reasoning strings are sequences of tokens; the pipeline's               *)
(* case-insensitive search for "n/a" is a search for a token that          *)
(* lower-cases to "n/a".                                                   *)
(***************************************************************************)
EXTENDS Integers, Sequences, FiniteSets, TLC

\* F applied to v: names a value that is computed once and read many times.
With(v, F(_)) == F(v)

(***************************************************************************)
(* Arithmetic helpers                                                      *)
(***************************************************************************)
Max(a, b) == IF a >= b THEN a ELSE b

Min(a, b) == IF a <= b THEN a ELSE b

Abs(a) == IF a < 0 THEN -a ELSE a

\* Integer quotient rounded toward zero, as a float product printed to the
\* model's precision: TLA+'s \div floors, so negatives are mirrored.
Quot(a, b) == IF a >= 0 THEN a \div b ELSE -((-a) \div b)

\* a * n / d rounded to the nearest unit (halves away from zero), for d > 0.
MulDiv(a, n, d) ==
    LET p == a * n
    IN  IF p >= 0 THEN (2 * p + d) \div (2 * d)
                  ELSE -((2 * (-p) + d) \div (2 * d))

\* A faulty clamp that returns its argument: the variant of clamp under
\* which C1 fails, which shows that C1 rests on the clamping.
clamp_identity(v, lo, hi) == v

\* schemas.clamp
clamp(v, lo, hi) == Max(lo, Min(hi, v))

\* schemas.clamp with its default bounds -1.0 .. +1.0
clamp1(v) == clamp(v, -10000, 10000)

RECURSIVE GCD(_, _)
GCD(a, b) == IF b = 0 THEN a ELSE GCD(b, a % b)

RECURSIVE SeqSum(_)
SeqSum(s) == IF s = << >> THEN 0 ELSE Head(s) + SeqSum(Tail(s))

RECURSIVE SeqGCD(_)
SeqGCD(s) == IF s = << >> THEN 0 ELSE GCD(Head(s), SeqGCD(Tail(s)))

SeqMin(s) == CHOOSE m \in {s[i] : i \in DOMAIN s} : \A i \in DOMAIN s : m <= s[i]

(***************************************************************************)
(* Strings as character sequences (product titles and title keywords)      *)
(***************************************************************************)
\* Code-point order of the characters that occur in titles and keywords.
Alphabet ==
    <<" ", "-", "a", "b", "c", "d", "e", "f", "g", "h", "i", "j", "k", "l", "m",
      "n", "o", "p", "q", "r", "s", "t", "u", "v", "w", "x", "y", "z">>

Upper ==
    <<"A", "B", "C", "D", "E", "F", "G", "H", "I", "J", "K", "L", "M",
      "N", "O", "P", "Q", "R", "S", "T", "U", "V", "W", "X", "Y", "Z">>

Ord(c) == CHOOSE i \in DOMAIN Alphabet : Alphabet[i] = c

\* str.lower() on one character
LowerChar(c) ==
    IF \E i \in DOMAIN Upper : Upper[i] = c
    THEN Alphabet[(CHOOSE i \in DOMAIN Upper : Upper[i] = c) + 2]
    ELSE c

\* str.lower()
Lower(s) == [i \in DOMAIN s |-> LowerChar(s[i])]

\* Python's `kw in title`
Contains(title, kw) ==
    \E off \in 0..(Len(title) - Len(kw)) :
        \A i \in 1..Len(kw) : title[off + i] = kw[i]

\* Python's str < str (lexicographic by code point)
RECURSIVE StrLess(_, _)
StrLess(a, b) ==
    IF a = << >> THEN b # << >>
    ELSE IF b = << >> THEN FALSE
    ELSE IF Head(a) # Head(b) THEN Ord(Head(a)) < Ord(Head(b))
    ELSE StrLess(Tail(a), Tail(b))

(***************************************************************************)
(* Garment-type router (garment_types.py)                                  *)
(***************************************************************************)
\* _TITLE_KEYWORDS, flattened to (category, keyword) pairs in table order.
_TITLE_KEYWORDS ==
    <<
        [category |-> "dress", keyword |-> <<"m","a","x","i"," ","d","r","e","s","s">>],
        [category |-> "dress", keyword |-> <<"m","i","n","i"," ","d","r","e","s","s">>],
        [category |-> "dress", keyword |-> <<"m","i","d","i"," ","d","r","e","s","s">>],
        [category |-> "dress", keyword |-> <<"s","h","i","f","t"," ","d","r","e","s","s">>],
        [category |-> "dress", keyword |-> <<"w","r","a","p"," ","d","r","e","s","s">>],
        [category |-> "dress", keyword |-> <<"d","r","e","s","s">>],
        [category |-> "dress", keyword |-> <<"g","o","w","n">>],
        [category |-> "dress", keyword |-> <<"f","r","o","c","k">>],
        [category |-> "top", keyword |-> <<"c","r","o","p"," ","t","o","p">>],
        [category |-> "top", keyword |-> <<"h","a","l","t","e","r"," ","t","o","p">>],
        [category |-> "top", keyword |-> <<"t","-","s","h","i","r","t">>],
        [category |-> "top", keyword |-> <<"b","l","o","u","s","e">>],
        [category |-> "top", keyword |-> <<"s","h","i","r","t">>],
        [category |-> "top", keyword |-> <<"t","e","e">>],
        [category |-> "top", keyword |-> <<"c","a","m","i">>],
        [category |-> "top", keyword |-> <<"c","a","m","i","s","o","l","e">>],
        [category |-> "top", keyword |-> <<"t","a","n","k">>],
        [category |-> "top", keyword |-> <<"t","u","n","i","c">>],
        [category |-> "top", keyword |-> <<"h","e","n","l","e","y">>],
        [category |-> "top", keyword |-> <<"p","o","l","o">>],
        [category |-> "top", keyword |-> <<"t","o","p">>],
        [category |-> "top", keyword |-> <<"b","u","s","t","i","e","r">>],
        [category |-> "top", keyword |-> <<"c","o","r","s","e","t"," ","t","o","p">>],
        [category |-> "top", keyword |-> <<"b","r","a","l","e","t","t","e">>],
        [category |-> "bottom_pants", keyword |-> <<"w","i","d","e","-","l","e","g">>],
        [category |-> "bottom_pants", keyword |-> <<"s","t","r","a","i","g","h","t","-","l","e","g">>],
        [category |-> "bottom_pants", keyword |-> <<"s","l","i","m"," ","p","a","n","t">>],
        [category |-> "bottom_pants", keyword |-> <<"p","a","n","t","s">>],
        [category |-> "bottom_pants", keyword |-> <<"t","r","o","u","s","e","r">>],
        [category |-> "bottom_pants", keyword |-> <<"j","e","a","n","s">>],
        [category |-> "bottom_pants", keyword |-> <<"d","e","n","i","m">>],
        [category |-> "bottom_pants", keyword |-> <<"c","h","i","n","o">>],
        [category |-> "bottom_pants", keyword |-> <<"l","e","g","g","i","n","g">>],
        [category |-> "bottom_pants", keyword |-> <<"j","o","g","g","e","r">>],
        [category |-> "bottom_pants", keyword |-> <<"c","a","r","g","o">>],
        [category |-> "bottom_pants", keyword |-> <<"p","a","l","a","z","z","o">>],
        [category |-> "bottom_pants", keyword |-> <<"c","u","l","o","t","t","e","s">>],
        [category |-> "bottom_pants", keyword |-> <<"s","w","e","a","t","p","a","n","t">>],
        [category |-> "bottom_shorts", keyword |-> <<"s","h","o","r","t","s">>],
        [category |-> "bottom_shorts", keyword |-> <<"b","e","r","m","u","d","a">>],
        [category |-> "bottom_shorts", keyword |-> <<"h","o","t"," ","p","a","n","t","s">>],
        [category |-> "skirt", keyword |-> <<"d","e","n","i","m"," ","s","k","i","r","t">>],
        [category |-> "skirt", keyword |-> <<"m","i","n","i"," ","s","k","i","r","t">>],
        [category |-> "skirt", keyword |-> <<"m","i","d","i"," ","s","k","i","r","t">>],
        [category |-> "skirt", keyword |-> <<"m","a","x","i"," ","s","k","i","r","t">>],
        [category |-> "skirt", keyword |-> <<"p","e","n","c","i","l"," ","s","k","i","r","t">>],
        [category |-> "skirt", keyword |-> <<"a","-","l","i","n","e"," ","s","k","i","r","t">>],
        [category |-> "skirt", keyword |-> <<"p","l","e","a","t","e","d"," ","s","k","i","r","t">>],
        [category |-> "skirt", keyword |-> <<"s","k","i","r","t">>],
        [category |-> "skirt", keyword |-> <<"s","k","o","r","t">>],
        [category |-> "jumpsuit", keyword |-> <<"j","u","m","p","s","u","i","t">>],
        [category |-> "romper", keyword |-> <<"r","o","m","p","e","r">>],
        [category |-> "romper", keyword |-> <<"p","l","a","y","s","u","i","t">>],
        [category |-> "jacket", keyword |-> <<"d","e","n","i","m"," ","j","a","c","k","e","t">>],
        [category |-> "jacket", keyword |-> <<"l","e","a","t","h","e","r"," ","j","a","c","k","e","t">>],
        [category |-> "jacket", keyword |-> <<"c","r","o","p","p","e","d"," ","j","a","c","k","e","t">>],
        [category |-> "jacket", keyword |-> <<"j","a","c","k","e","t">>],
        [category |-> "jacket", keyword |-> <<"b","l","a","z","e","r">>],
        [category |-> "jacket", keyword |-> <<"b","o","m","b","e","r">>],
        [category |-> "jacket", keyword |-> <<"m","o","t","o">>],
        [category |-> "jacket", keyword |-> <<"s","h","a","c","k","e","t">>],
        [category |-> "coat", keyword |-> <<"o","v","e","r","c","o","a","t">>],
        [category |-> "coat", keyword |-> <<"t","r","e","n","c","h">>],
        [category |-> "coat", keyword |-> <<"p","a","r","k","a">>],
        [category |-> "coat", keyword |-> <<"p","e","a","c","o","a","t">>],
        [category |-> "coat", keyword |-> <<"p","u","f","f","e","r">>],
        [category |-> "coat", keyword |-> <<"d","o","w","n"," ","j","a","c","k","e","t">>],
        [category |-> "coat", keyword |-> <<"r","a","i","n"," ","j","a","c","k","e","t">>],
        [category |-> "coat", keyword |-> <<"c","o","a","t">>],
        [category |-> "coat", keyword |-> <<"a","n","o","r","a","k">>],
        [category |-> "coat", keyword |-> <<"c","a","p","e">>],
        [category |-> "coat", keyword |-> <<"p","o","n","c","h","o">>],
        [category |-> "sweatshirt", keyword |-> <<"s","w","e","a","t","s","h","i","r","t">>],
        [category |-> "sweatshirt", keyword |-> <<"h","o","o","d","i","e">>],
        [category |-> "sweatshirt", keyword |-> <<"p","u","l","l","o","v","e","r">>],
        [category |-> "sweatshirt", keyword |-> <<"f","l","e","e","c","e">>],
        [category |-> "cardigan", keyword |-> <<"c","a","r","d","i","g","a","n">>],
        [category |-> "cardigan", keyword |-> <<"k","i","m","o","n","o">>],
        [category |-> "cardigan", keyword |-> <<"d","u","s","t","e","r">>],
        [category |-> "vest", keyword |-> <<"v","e","s","t">>],
        [category |-> "vest", keyword |-> <<"g","i","l","e","t">>],
        [category |-> "vest", keyword |-> <<"w","a","i","s","t","c","o","a","t">>],
        [category |-> "bodysuit", keyword |-> <<"b","o","d","y","s","u","i","t">>],
        [category |-> "activewear", keyword |-> <<"s","p","o","r","t","s"," ","b","r","a">>],
        [category |-> "activewear", keyword |-> <<"y","o","g","a"," ","p","a","n","t","s">>],
        [category |-> "activewear", keyword |-> <<"w","o","r","k","o","u","t"," ","t","o","p">>],
        [category |-> "activewear", keyword |-> <<"a","t","h","l","e","t","i","c">>],
        [category |-> "loungewear", keyword |-> <<"p","a","j","a","m","a">>],
        [category |-> "loungewear", keyword |-> <<"r","o","b","e">>],
        [category |-> "loungewear", keyword |-> <<"l","o","u","n","g","e","w","e","a","r">>],
        [category |-> "loungewear", keyword |-> <<"n","i","g","h","t","g","o","w","n">>],
        [category |-> "loungewear", keyword |-> <<"s","l","e","e","p","w","e","a","r">>],
        [category |-> "saree", keyword |-> <<"s","a","r","e","e">>],
        [category |-> "saree", keyword |-> <<"s","a","r","i">>],
        [category |-> "salwar_kameez", keyword |-> <<"s","a","l","w","a","r">>],
        [category |-> "salwar_kameez", keyword |-> <<"k","a","m","e","e","z">>],
        [category |-> "salwar_kameez", keyword |-> <<"k","u","r","t","a">>],
        [category |-> "salwar_kameez", keyword |-> <<"k","u","r","t","i">>],
        [category |-> "salwar_kameez", keyword |-> <<"a","n","a","r","k","a","l","i">>],
        [category |-> "salwar_kameez", keyword |-> <<"c","h","u","r","i","d","a","r">>],
        [category |-> "lehenga", keyword |-> <<"l","e","h","e","n","g","a">>],
        [category |-> "lehenga", keyword |-> <<"l","e","h","n","g","a">>],
        [category |-> "lehenga", keyword |-> <<"c","h","a","n","i","y","a"," ","c","h","o","l","i">>]
    >>

\* The (len, keyword, category) tuples of classify_garment's all_matches.
TitleMatches(title) ==
    {i \in DOMAIN _TITLE_KEYWORDS : Contains(title, _TITLE_KEYWORDS[i].keyword)}

\* Tuple order of all_matches.sort(): length first, then the keyword string.
\* No keyword occurs under two categories, so the category never decides.
MatchLess(i, j) ==
    LET a == _TITLE_KEYWORDS[i].keyword
        b == _TITLE_KEYWORDS[j].keyword
    IN  \/ Len(a) < Len(b)
        \/ Len(a) = Len(b) /\ StrLess(a, b)

\* all_matches.sort(reverse=True)[0][2]; "none" when nothing matches.
BestTitleCategory(title) ==
    LET ms == TitleMatches(Lower(title))
    IN  IF ms = {} THEN "none"
        ELSE _TITLE_KEYWORDS[CHOOSE i \in ms : \A j \in ms \ {i} : MatchLess(j, i)].category

(***************************************************************************)
(* garment_types.py: scorer routing                                        *)
(***************************************************************************)
_SCORERS_TO_SKIP(category) ==
    CASE category \in {"top", "sweatshirt", "bodysuit", "jacket", "cardigan"} ->
            {"Hemline"}
      [] category \in {"bottom_pants", "bottom_shorts"} ->
            {"V-Neck Elongation", "Neckline Compound", "Sleeve",
             "Rise Elongation", "Hemline"}
      [] category = "skirt" ->
            {"V-Neck Elongation", "Neckline Compound", "Sleeve",
             "Rise Elongation"}
      [] category = "vest" -> {"Hemline", "Sleeve"}
      [] OTHER -> {}

_EXTRA_SCORERS(category) ==
    CASE category \in {"top", "sweatshirt", "bodysuit", "cardigan"} ->
            <<"Top Hemline">>
      [] category \in {"bottom_pants", "bottom_shorts"} ->
            <<"Pant Rise", "Leg Shape">>
      [] category \in {"jacket", "coat"} -> <<"Jacket Scoring">>
      [] OTHER -> << >>

_LAYER_CATEGORIES == {"jacket", "coat", "cardigan", "vest"}

TYPE_SCORER_WEIGHTS ==
    [n \in {"Top Hemline", "Pant Rise", "Leg Shape", "Jacket Scoring"} |->
        CASE n = "Top Hemline" -> 1500
          [] n = "Pant Rise" -> 1800
          [] n = "Leg Shape" -> 1500
          [] n = "Jacket Scoring" -> 1800]

get_scorers_to_skip(category) == _SCORERS_TO_SKIP(category)

get_extra_scorer_names(category) == _EXTRA_SCORERS(category)

is_layer_garment(category) == category \in _LAYER_CATEGORIES

(***************************************************************************)
(* Product titles the model draws from.  The empty title stands for both   *)
(* title=None and title="" (classify_garment reads `garment.title or ""`). *)
(***************************************************************************)
TitleNone == << >>

TitleJeans == <<"j","e","a","n","s">>

TitleWrapDress == <<"W","r","a","p"," ","D","r","e","s","s">>

TitleBlazer == <<"b","l","a","z","e","r">>

TitleSet ==
    <<"l","e","g","g","i","n","g","s"," ","a","n","d"," ",
      "s","w","e","a","t","s","h","i","r","t"," ","s","e","t">>

TitlePlain == <<"s","u","m","m","e","r"," ","e","d","i","t">>

Titles == {TitleNone, TitleJeans, TitleWrapDress, TitleBlazer, TitleSet,
           TitlePlain}

\* The title branch of classify_garment, tabulated once per title.
TitleCategory == [t \in Titles |-> BestTitleCategory(t)]

\* classify_garment with the rise-and-leg fallback taken only while the
\* category is still the default.
classify_garment_pantsOnlyFromDress(garment) ==
    IF TitleCategory[garment.title] # "none" THEN TitleCategory[garment.title]
    ELSE IF /\ garment.rise # "none" /\ garment.leg_shape # "none"
            /\ garment.category = "dress"
         THEN "bottom_pants"
    ELSE IF garment.skirt_construction # "none" THEN "skirt"
    ELSE IF garment.jacket_closure # "none" THEN "jacket"
    ELSE garment.category

\* garment_types.classify_garment
classify_garment(garment) ==
    IF TitleCategory[garment.title] # "none" THEN TitleCategory[garment.title]
    ELSE IF garment.rise # "none" /\ garment.leg_shape # "none" THEN "bottom_pants"
    ELSE IF garment.skirt_construction # "none" THEN "skirt"
    ELSE IF garment.jacket_closure # "none" THEN "jacket"
    ELSE garment.category

(***************************************************************************)
(* rules_data.py: fabric constants                                         *)
(***************************************************************************)
\* Elastane stretch multiplier by construction, in tenths; 2.0 when unlisted.
ELASTANE_MULTIPLIERS(construction) ==
    CASE construction = "woven" -> 16
      [] construction = "knit" -> 40
      [] construction = "knit_rib" -> 55
      [] construction = "knit_double" -> 35
      [] construction = "knit_jersey" -> 40
      [] OTHER -> 20

\* Fiber GSM multiplier, in hundredths; 1.0 when unlisted.
FIBER_GSM_MULTIPLIERS(fiber) ==
    CASE fiber = "cotton" -> 115
      [] fiber = "polyester" -> 100
      [] fiber = "silk" -> 85
      [] fiber = "wool" -> 110
      [] fiber = "rayon" -> 90
      [] fiber = "linen" -> 125
      [] fiber = "nylon" -> 95
      [] fiber = "tencel" -> 92
      [] fiber \in {"modal", "viscose"} -> 90
      [] OTHER -> 100

\* Sheen by surface finish, in hundredths; 0.10 when unlisted.
SHEEN_MAP(surface) ==
    CASE surface = "deep_matte" -> 0
      [] surface = "matte" -> 10
      [] surface = "subtle_sheen" -> 25
      [] surface = "moderate_sheen" -> 50
      [] surface = "high_shine" -> 75
      [] surface = "maximum_shine" -> 100
      [] surface = "crushed" -> 35
      [] OTHER -> 10

\* FABRIC_LOOKUP[name]["typical_stretch"] in tenths of a percent; 0 both for
\* the fabrics the table lists with no stretch and for names it does not list
\* (resolve_fabric_properties treats the two alike).
FABRIC_LOOKUP(fabric_name) ==
    CASE fabric_name \in {"wool_crepe", "double_crepe"} -> 20
      [] fabric_name \in {"crushed_velvet", "tulle", "faux_leather",
                          "poplin_stretch", "stretch_crepe",
                          "stretch_poplin"} -> 50
      [] fabric_name \in {"stretch_denim", "bengaline"} -> 80
      [] fabric_name \in {"french_terry", "sequin_mesh"} -> 100
      [] fabric_name \in {"scuba", "wool_jersey"} -> 120
      [] fabric_name \in {"cotton_jersey", "neoprene", "bamboo_jersey",
                          "scuba_knit"} -> 150
      [] fabric_name = "interlock_knit" -> 180
      [] fabric_name \in {"ponte", "modal_jersey", "mesh"} -> 200
      [] fabric_name = "performance_knit" -> 250
      [] fabric_name = "rib_knit" -> 300
      [] fabric_name = "spandex_blend" -> 400
      [] fabric_name = "power_mesh" -> 500
      [] OTHER -> 0

(***************************************************************************)
(* fabric_gate.py                                                          *)
(***************************************************************************)
\* total_stretch_pct in tenths of a percent, effective_gsm in tenths of a
\* g/m2, sheen_score and surface_friction in hundredths, drape_coefficient in
\* percent, cling_risk_base in 1/10000.
resolve_fabric_properties(garment) ==
    LET elastane_mult == ELASTANE_MULTIPLIERS(garment.construction)
        stretch0 == MulDiv(garment.elastane_pct, elastane_mult, 10)
        total_stretch ==
            IF /\ garment.fabric_name # "none"
               /\ garment.elastane_pct = 0
               /\ FABRIC_LOOKUP(garment.fabric_name) > 0
            THEN FABRIC_LOOKUP(garment.fabric_name)
            ELSE stretch0
        fiber_mult == FIBER_GSM_MULTIPLIERS(garment.primary_fiber)
        effective_gsm == MulDiv(garment.gsm_estimated, fiber_mult, 10)
        gsm_factor == Max(0, 10000 - MulDiv(effective_gsm, 10, 3))
        friction_factor == Max(0, 10000 - 100 * garment.surface_friction)
        cling_base ==
            Min(10000, MulDiv(50 * total_stretch + gsm_factor + friction_factor, 1, 3))
    IN  [total_stretch_pct |-> total_stretch,
         effective_gsm |-> effective_gsm,
         sheen_score |-> SHEEN_MAP(garment.surface),
         drape_coefficient |-> garment.drape,
         cling_risk_base |-> cling_base,
         is_structured |-> garment.is_structured \/ garment.has_lining,
         photo_reality_discount |-> 0,
         surface_friction |-> garment.surface_friction]

\* The exception the gate appends: id, overridden rule and confidence (1/100).
ExceptionTriggered(id, rule, conf) ==
    [exception_id |-> id, rule_overridden |-> rule, confidence |-> conf]

(***************************************************************************)
(* schemas.py: derived properties of BodyProfile and GarmentProfile        *)
(***************************************************************************)
\* math.pi to four decimals, times 10000.
Pi == 31416

\* hip / pi, in 1/100 inch.
HipWidth(body) == MulDiv(body.hip, 10000, Pi)

whr(body) == IF body.hip > 0 THEN MulDiv(body.waist, 10000, body.hip) ELSE 8000

bust_differential(body) == body.bust - body.underbust

shoulder_hip_diff(body) == body.shoulder_width - HipWidth(body)

\* In 1/100000: the waistline translation multiplies differences of this
\* ratio by eight.
leg_ratio(body) ==
    IF body.height > 0 THEN MulDiv(body.leg_length_visual, 100000, body.height)
    ELSE 62000

torso_leg_ratio(body) ==
    IF body.leg_length_visual > 0
    THEN MulDiv(body.torso_length, 10000, body.leg_length_visual)
    ELSE 3700

\* Petite only under five feet.
is_petite_under60(body) == body.height < 6000

is_petite(body) == body.height < 6300

is_tall(body) == body.height > 6800

is_plus_size(body) == body.bust > 4200 \/ body.hip > 4400

body_shape(body) ==
    LET bwd == body.bust - body.waist
        hwd == body.hip - body.waist
        shr == IF body.hip > 0
               THEN MulDiv(body.shoulder_width, 10000, HipWidth(body))
               ELSE 10000
    IN  IF bwd >= 700 /\ hwd >= 700 /\ 8500 <= shr /\ shr <= 11500
        THEN "hourglass"
        ELSE IF hwd >= 700 /\ hwd > bwd + 200 /\ shr < 10500 THEN "pear"
        ELSE IF bwd < 500 /\ hwd < 500 /\ whr(body) > 8500 THEN "apple"
        ELSE IF shoulder_hip_diff(body) > 300 THEN "inverted_triangle"
        ELSE "rectangle"

\* The tags as a set; every reader only tests membership.
body_tags(body) ==
    (IF body.height < 6300 THEN {"petite"} ELSE {})
    \cup (IF body.height > 6800 THEN {"tall"} ELSE {})
    \cup (IF body.hip - body.bust >= 300 /\ whr(body) < 7800 THEN {"pear"} ELSE {})
    \cup (IF whr(body) > 8500 THEN {"apple"} ELSE {})
    \cup (IF /\ Abs(body.bust - body.hip) <= 200
             /\ bust_differential(body) >= 600
             /\ whr(body) <= 7500
          THEN {"hourglass"} ELSE {})
    \cup (IF /\ Abs(body.bust - body.waist) <= 400
             /\ Abs(body.waist - body.hip) <= 400
          THEN {"rectangle"} ELSE {})
    \cup (IF shoulder_hip_diff(body) > 300 THEN {"inverted_triangle"} ELSE {})
    \cup (IF body.bust > 4200 \/ body.hip > 4400 THEN {"plus_size"} ELSE {})

\* (torso_length / height - 0.23) / 0.02, in 1/10000 of a score point.
torso_score(body) ==
    LET ratio == IF body.height > 0
                 THEN MulDiv(body.torso_length, 100000, body.height)
                 ELSE 23000
    IN  5 * (ratio - 23000)

calf_prominence(body) ==
    IF body.c_calf_min > 0 THEN MulDiv(body.c_calf_max, 10000, body.c_calf_min)
    ELSE 10000

arm_prominence_combined(body) ==
    IF body.c_wrist <= 0 \/ body.c_forearm_min <= 0 THEN 15000
    ELSE MulDiv(MulDiv(body.c_upper_arm_max, 10000, body.c_wrist)
                + MulDiv(body.c_upper_arm_max, 10000, body.c_forearm_min), 1, 2)

is_dark(garment) == garment.color_lightness < 25

sheen_index(garment) == SHEEN_MAP(garment.surface)

drape_coefficient(garment) == garment.drape

\* GarmentProfile.cling_risk: as the resolver's cling base, but on the raw
\* gsm_estimated and with no fabric-table stretch.
cling_risk(garment) ==
    LET stretch == MulDiv(garment.elastane_pct,
                          ELASTANE_MULTIPLIERS(garment.construction), 10)
        gsm_factor == Max(0, 10000 - MulDiv(garment.gsm_estimated, 100, 3))
        friction_factor == Max(0, 10000 - 100 * garment.surface_friction)
    IN  Min(10000, MulDiv(50 * stretch + gsm_factor + friction_factor, 1, 3))

\* The gates with the tailoring gate evaluated first instead of fourth.
run_fabric_gates_structuredFirst(garment, body, resolved) ==
    (IF resolved.is_structured
     THEN <<ExceptionTriggered("GATE_STRUCTURED", "negative_penalties", 85)>>
     ELSE << >>)
    \o (IF is_dark(garment) /\ resolved.sheen_score > 50
        THEN <<ExceptionTriggered("GATE_DARK_SHINY", "dark_slimming", 80)>>
        ELSE << >>)
    \o (IF garment.silhouette = "a_line" /\ resolved.drape_coefficient >= 65
        THEN <<ExceptionTriggered("GATE_ALINE_SHELF", "aline_balance", 82)>>
        ELSE << >>)
    \o (IF /\ garment.neckline = "wrap"
           /\ bust_differential(body) >= 600
           /\ resolved.surface_friction < 30
        THEN <<ExceptionTriggered("GATE_WRAP_GAPPING", "wrap_neckline", 75)>>
        ELSE << >>)
    \o (IF /\ resolved.drape_coefficient > 60
           /\ body.belly_zone > 30
           /\ garment.silhouette \notin {"fitted", "semi_fitted"}
        THEN <<ExceptionTriggered("GATE_FLUID_APPLE_BELLY", "tent_concealment", 72)>>
        ELSE << >>)
    \o (IF /\ resolved.sheen_score < 30
           /\ resolved.cling_risk_base > 6000
           /\ (is_plus_size(body) \/ body.hip_zone > 50 \/ body.belly_zone > 50)
        THEN <<ExceptionTriggered("GATE_CLING_TRAP", "matte_zone", 78)>>
        ELSE << >>)

\* fabric_gate.run_fabric_gates: the six gates in source order.
run_fabric_gates(garment, body, resolved) ==
    (IF is_dark(garment) /\ resolved.sheen_score > 50
     THEN <<ExceptionTriggered("GATE_DARK_SHINY", "dark_slimming", 80)>>
     ELSE << >>)
    \o (IF garment.silhouette = "a_line" /\ resolved.drape_coefficient >= 65
        THEN <<ExceptionTriggered("GATE_ALINE_SHELF", "aline_balance", 82)>>
        ELSE << >>)
    \o (IF /\ garment.neckline = "wrap"
           /\ bust_differential(body) >= 600
           /\ resolved.surface_friction < 30
        THEN <<ExceptionTriggered("GATE_WRAP_GAPPING", "wrap_neckline", 75)>>
        ELSE << >>)
    \o (IF resolved.is_structured
        THEN <<ExceptionTriggered("GATE_STRUCTURED", "negative_penalties", 85)>>
        ELSE << >>)
    \o (IF /\ resolved.drape_coefficient > 60
           /\ body.belly_zone > 30
           /\ garment.silhouette \notin {"fitted", "semi_fitted"}
        THEN <<ExceptionTriggered("GATE_FLUID_APPLE_BELLY", "tent_concealment", 72)>>
        ELSE << >>)
    \o (IF /\ resolved.sheen_score < 30
           /\ resolved.cling_risk_base > 6000
           /\ (is_plus_size(body) \/ body.hip_zone > 50 \/ body.belly_zone > 50)
        THEN <<ExceptionTriggered("GATE_CLING_TRAP", "matte_zone", 78)>>
        ELSE << >>)

\* A reduction to one half instead of three tenths.
get_structured_penalty_reduction_half(exceptions) ==
    IF \E i \in DOMAIN exceptions : exceptions[i].exception_id = "GATE_STRUCTURED"
    THEN 50 ELSE 100

\* A reduction that any gate grants.
get_structured_penalty_reduction_anyGate(exceptions) ==
    IF exceptions # << >> THEN 30 ELSE 100

\* fabric_gate.get_structured_penalty_reduction, in hundredths.
get_structured_penalty_reduction(exceptions) ==
    IF \E i \in DOMAIN exceptions : exceptions[i].exception_id = "GATE_STRUCTURED"
    THEN 30 ELSE 100

(***************************************************************************)
(* body_garment_translator.py: hemline                                     *)
(***************************************************************************)
\* The label table with "above_knee" one inch above the knee instead of three.
_hem_label_to_height_lowAboveKnee(label, body) ==
    CASE label = "mini" -> body.h_knee + 600
      [] label = "above_knee" -> body.h_knee + 100
      [] label = "knee" -> body.h_knee
      [] label = "below_knee" -> body.h_knee - 300
      [] label = "midi" -> body.h_calf_max
      [] label = "below_calf" -> body.h_calf_min
      [] label = "ankle" -> body.h_ankle + 200
      [] label = "floor" -> 100
      [] OTHER -> body.h_knee

_hem_label_to_height(label, body) ==
    CASE label = "mini" -> body.h_knee + 600
      [] label = "above_knee" -> body.h_knee + 300
      [] label = "knee" -> body.h_knee
      [] label = "below_knee" -> body.h_knee - 300
      [] label = "midi" -> body.h_calf_max
      [] label = "below_calf" -> body.h_calf_min
      [] label = "ankle" -> body.h_ankle + 200
      [] label = "floor" -> 100
      [] OTHER -> body.h_knee

\* Inches of ride-up, in 1/100 inch.
fabric_drape_adjustment(silhouette, fabric_weight, hip_circ, stomach_projection) ==
    LET r1 == IF silhouette \in {"a_line", "fit_and_flare"}
              THEN (IF hip_circ > 4000 THEN 100 ELSE 0)
                   + (IF stomach_projection > 200 THEN 50 ELSE 0)
              ELSE 0
        r2 == r1 + (IF silhouette = "fitted" THEN 50 ELSE 0)
    IN  IF fabric_weight = "light" THEN MulDiv(r2, 13, 10)
        ELSE IF fabric_weight = "heavy" THEN MulDiv(r2, 7, 10)
        ELSE r2

\* A classification that takes the safe zone for collapsed when it is two
\* inches or less, and asks that before it asks for the safe zone.
hem_zone_of_narrowCollapsed(hem_from_floor, knee_center, knee_danger, calf_danger, safe_zone_size, h_ankle) ==
    IF hem_from_floor > knee_center + 250 THEN "above_knee"
    ELSE IF hem_from_floor > knee_danger[2] THEN "above_knee_near"
    ELSE IF hem_from_floor >= knee_danger[1] THEN "knee_danger"
    ELSE IF safe_zone_size <= 200 /\ hem_from_floor > calf_danger[2]
         THEN "collapsed_zone"
    ELSE IF safe_zone_size > 0 /\ hem_from_floor > calf_danger[2]
         THEN "safe_zone"
    ELSE IF hem_from_floor >= calf_danger[1] THEN "calf_danger"
    ELSE IF hem_from_floor > h_ankle + 200 THEN "below_calf"
    ELSE IF hem_from_floor > h_ankle - 100 THEN "ankle"
    ELSE "floor"

\* Step 5 of translate_hemline: the zone classification.
hem_zone_of(hem_from_floor, knee_center, knee_danger, calf_danger, safe_zone_size, h_ankle) ==
    IF hem_from_floor > knee_center + 250 THEN "above_knee"
    ELSE IF hem_from_floor > knee_danger[2] THEN "above_knee_near"
    ELSE IF hem_from_floor >= knee_danger[1] THEN "knee_danger"
    ELSE IF safe_zone_size > 0 /\ hem_from_floor > calf_danger[2]
         THEN "safe_zone"
    ELSE IF safe_zone_size <= 0 /\ hem_from_floor > calf_danger[2]
         THEN "collapsed_zone"
    ELSE IF hem_from_floor >= calf_danger[1] THEN "calf_danger"
    ELSE IF hem_from_floor > h_ankle + 200 THEN "below_calf"
    ELSE IF hem_from_floor > h_ankle - 100 THEN "ankle"
    ELSE "floor"

translate_hemline(garment, body) ==
    LET hem0 == IF garment.garment_length_inches # -1
                THEN body.height - MulDiv(garment.garment_length_inches, body.height, 6600)
                ELSE _hem_label_to_height(garment.hem_position, body)
        fabric_weight == IF garment.gsm_estimated < 120 THEN "light"
                         ELSE IF garment.gsm_estimated > 280 THEN "heavy"
                         ELSE "medium"
        rise == fabric_drape_adjustment(garment.silhouette, fabric_weight,
                                        body.hip, body.belly_projection)
        hem_from_floor == hem0 + rise
        knee_center == body.h_knee
        knee_danger == <<knee_center - 100, knee_center + 150>>
        calf_widest == body.h_calf_max
        calf_danger_radius == 100 + MulDiv(calf_prominence(body) - 10000, 3, 100)
        calf_danger == <<calf_widest - calf_danger_radius,
                         calf_widest + calf_danger_radius>>
        thigh_widest_h == body.h_knee + 600
        thigh_danger == <<thigh_widest_h - 100, thigh_widest_h + 100>>
        safe_zone_top == knee_danger[1]
        safe_zone_bottom == calf_danger[2]
        safe_zone_size == safe_zone_top - safe_zone_bottom
        hem_zone == hem_zone_of(hem_from_floor, knee_center, knee_danger,
                                calf_danger, safe_zone_size, body.h_ankle)
        cut_ratio == IF body.height > 0
                     THEN MulDiv(hem_from_floor, 10000, body.height)
                     ELSE 3000
        b_ankle == IF Abs(hem_from_floor - (body.h_ankle + 200)) <= 150 THEN 2 ELSE 0
        b_calf == IF Abs(hem_from_floor - body.h_calf_min) <= 150 THEN 1 ELSE 0
    IN  [hem_from_floor |-> hem_from_floor,
         hem_zone |-> hem_zone,
         danger_zones |-> <<thigh_danger, knee_danger, calf_danger>>,
         safe_zone |-> IF safe_zone_size > 0
                       THEN <<safe_zone_bottom, safe_zone_top>> ELSE << >>,
         safe_zone_size |-> safe_zone_size,
         fabric_rise |-> rise,
         proportion_cut_ratio |-> cut_ratio,
         narrowest_point_bonus |-> Max(b_ankle, b_calf)]

(***************************************************************************)
(* body_garment_translator.py: sleeve.  Positions along the arm, arm       *)
(* circumferences and widths are in 1/1000 inch here.                      *)
(***************************************************************************)
HEM_TYPE_MODIFIERS(hem_type) ==
    CASE hem_type = "clean_hem" -> 0
      [] hem_type = "elastic" -> 150
      [] hem_type = "soft_edge" -> -100
      [] hem_type = "flutter" -> -200
      [] hem_type = "rolled" -> 100
      [] OTHER -> 0

\* Inches per side, in 1/100 inch.
SHOULDER_WIDTH_MODIFIERS(sleeve_key) ==
    CASE sleeve_key = "set_in" -> 0
      [] sleeve_key = "raglan" -> -50
      [] sleeve_key = "dropped" -> -75
      [] sleeve_key = "puff" -> 150
      [] sleeve_key = "structured" -> 50
      [] sleeve_key = "cap" -> 25
      [] sleeve_key = "dolman" -> -50
      [] sleeve_key = "off_shoulder" -> 0
      [] OTHER -> 0

ArmLandmarks(body) ==
    << <<0, MulDiv(10 * body.shoulder_width, Pi, 40000)>>,
       <<10 * body.c_upper_arm_max_position, 10 * body.c_upper_arm_max>>,
       <<MulDiv(10 * body.arm_length, 52, 100), 10 * body.c_elbow>>,
       <<MulDiv(10 * body.arm_length, 65, 100), 10 * body.c_forearm_max>>,
       <<10 * body.c_forearm_min_position, 10 * body.c_forearm_min>>,
       <<10 * body.arm_length, 10 * body.c_wrist>> >>

_interpolate_arm_circ(body, position) ==
    With(ArmLandmarks(body), LAMBDA landmarks :
    LET brackets == {i \in 1..5 : landmarks[i][1] <= position
                                  /\ position <= landmarks[i + 1][1]}
    IN  IF position <= landmarks[1][1] THEN landmarks[1][2]
        ELSE IF position >= landmarks[6][1] THEN landmarks[6][2]
        ELSE IF brackets = {} THEN 10 * body.c_upper_arm_max
        ELSE With(CHOOSE k \in brackets : \A j \in brackets : k <= j, LAMBDA i :
             LET p0 == landmarks[i][1]
                 c0 == landmarks[i][2]
                 p1 == landmarks[i + 1][1]
                 c1 == landmarks[i + 1][2]
             IN  IF p1 = p0 THEN c0
                 ELSE c0 + MulDiv(position - p0, c1 - c0, p1 - p0)))

\* <<severity in 1/100, radius in 1/100 inch>>
_arm_prominence_severity(body) ==
    LET combined == arm_prominence_combined(body)
    IN  IF combined < 13500 THEN <<30, 50>>
        ELSE IF combined < 15000 THEN <<50, 75>>
        ELSE IF combined < 16500 THEN <<75, 100>>
        ELSE IF combined < 18000 THEN <<100, 150>>
        ELSE IF combined < 20000 THEN <<130, 200>>
        ELSE IF combined < 22000 THEN <<160, 250>>
        ELSE <<200, 300>>

\* <<endpoint_position, ease, hem_type>>, lengths in 1/1000 inch.
_sleeve_type_to_position(sleeve_type, body) ==
    CASE sleeve_type = "sleeveless" -> <<0, 0, "clean_hem">>
      [] sleeve_type = "cap" -> <<2500, -500, "clean_hem">>
      [] sleeve_type = "short" -> <<6000, 1000, "clean_hem">>
      [] sleeve_type = "three_quarter" -> <<17000, 500, "clean_hem">>
      [] sleeve_type = "long" -> <<10 * body.arm_length, 0, "clean_hem">>
      [] sleeve_type = "raglan" -> <<10 * body.arm_length, 1000, "clean_hem">>
      [] sleeve_type = "dolman" -> <<10 * body.arm_length, 12000, "clean_hem">>
      [] sleeve_type = "puff" -> <<4000, 6000, "elastic">>
      [] sleeve_type = "flutter" -> <<3000, 3000, "flutter">>
      [] sleeve_type = "bell" -> <<7 * body.arm_length, 8000, "clean_hem">>
      [] sleeve_type = "set_in" -> <<10 * body.arm_length, 1000, "clean_hem">>
      [] OTHER -> <<10 * body.arm_length, 1000, "clean_hem">>

\* translate_sleeve; score_from_delta in 1/10000, severity in 1/100.
SleeveScoreFromDelta(delta, severity) ==
    LET score0 == IF delta > 300 THEN -40000
                  ELSE IF delta > 150 THEN -20000
                  ELSE IF delta > 0 THEN -10000
                  ELSE IF delta > -300 THEN 10000
                  ELSE IF delta > -600 THEN 30000
                  ELSE 50000
    IN  IF score0 < 0 THEN MulDiv(score0, severity, 100)
        ELSE MulDiv(score0, 100 + severity, 200)

translate_sleeve(garment, body) ==
    With(IF garment.sleeve_length_inches # -1
         THEN <<10 * garment.sleeve_length_inches,
                10 * garment.sleeve_ease_inches, "clean_hem">>
         ELSE _sleeve_type_to_position(garment.sleeve_type, body), LAMBDA pos :
    With(MulDiv(_interpolate_arm_circ(body, pos[1]), 10000, Pi), LAMBDA actual_width :
    With(_arm_prominence_severity(body), LAMBDA sev :
    LET endpoint == pos[1]
        ease == pos[2]
        hem_type == pos[3]
        frame0 == IF ease >= 0 THEN actual_width + MulDiv(ease, 10000, Pi)
                  ELSE IF ease > -1000 THEN actual_width + MulDiv(Abs(ease), 3, 10)
                  ELSE actual_width + MulDiv(Abs(ease), 5, 10)
    IN  With(frame0 + HEM_TYPE_MODIFIERS(hem_type), LAMBDA frame_width :
        LET taper_impression ==
                IF endpoint < 10 * body.arm_length
                THEN LET mid_visible == MulDiv(endpoint + 10 * body.arm_length, 1, 2)
                         visible_circ == _interpolate_arm_circ(body, mid_visible)
                         avg_visible_width == MulDiv(visible_circ, 10000, Pi)
                     IN  MulDiv(avg_visible_width - frame_width, 4, 10)
                ELSE 0
        IN  With(frame_width + taper_impression, LAMBDA perceived_width :
            LET delta == IF endpoint <= 10 * body.c_upper_arm_max_position + 1500
                         THEN LET widest_arm_width ==
                                      MulDiv(10 * body.c_upper_arm_max, 10000, Pi)
                                  cap_frame_delta == frame_width - widest_arm_width + 200
                              IN  Max(perceived_width - actual_width, cap_frame_delta)
                         ELSE perceived_width - actual_width
            IN  [endpoint_position |-> endpoint,
                 perceived_width |-> perceived_width,
                 actual_width |-> actual_width,
                 delta_vs_actual |-> delta,
                 arm_prominence_severity |-> sev[1],
                 arm_prominence_radius |-> sev[2],
                 score_from_delta |-> SleeveScoreFromDelta(delta, sev[1]),
                 shoulder_width_effect |->
                     SHOULDER_WIDTH_MODIFIERS(garment.sleeve_type)])))))

(***************************************************************************)
(* body_garment_translator.py: waistline.  Heights are in 1/10000 inch and *)
(* leg ratios in 1/100000 here.                                            *)
(***************************************************************************)
GOLDEN_RATIO == 61800

\* WAIST_POSITION_MULTIPLIERS.get(position) in hundredths; -1 for None, which
\* both "no_waist" and an unlisted position give.
WAIST_POSITION_MULTIPLIERS(position) ==
    CASE position = "empire" -> 35
      [] position = "high" -> 65
      [] position = "natural" -> 100
      [] position = "drop" -> 115
      [] OTHER -> -1

translate_waistline(garment, body) ==
    LET position == garment.waist_position
        multiplier == WAIST_POSITION_MULTIPLIERS(position)
        visual_waist_from_shoulder ==
            IF multiplier = -1 THEN 100 * body.torso_length
            ELSE body.torso_length * multiplier
        shift == 100 * body.torso_length - visual_waist_from_shoulder
        perceptual_shift == MulDiv(shift, 25, 100)
        visual_leg_length == 100 * body.leg_length_visual + perceptual_shift
        visual_waist_height == 100 * (body.height - body.torso_length) + perceptual_shift
        visual_leg_ratio == IF body.height > 0
                            THEN MulDiv(visual_leg_length, 1000, body.height)
                            ELSE 61800
        current_ratio == leg_ratio(body)
        deviation_before == Abs(current_ratio - GOLDEN_RATIO)
        deviation_after == Abs(visual_leg_ratio - GOLDEN_RATIO)
        improvement == deviation_before - deviation_after
    IN  [visual_waist_height |-> visual_waist_height,
         visual_leg_ratio |-> visual_leg_ratio,
         proportion_improvement |-> improvement,
         proportion_score |-> clamp(MulDiv(improvement, 8, 10), -8000, 8000),
         waist_position_label |-> position]

_HEM_CATEGORIES == {"dress", "skirt", "jumpsuit", "romper", "coat"}

_SLEEVE_CATEGORIES ==
    {"dress", "top", "jumpsuit", "romper", "jacket", "coat", "sweatshirt",
     "cardigan", "bodysuit", "loungewear", "activewear", "saree",
     "salwar_kameez", "lehenga"}

_WAIST_CATEGORIES ==
    {"dress", "jumpsuit", "romper", "coat", "bottom_pants", "bottom_shorts",
     "skirt"}

\* translate_garment_to_body: reads garment.category as Layer 2 left it.
BodyAdjustedGarment(category, hem, sleeve, waist, resolved) ==
    LET isHem == category \in _HEM_CATEGORIES
        isSleeve == category \in _SLEEVE_CATEGORIES
        isWaist == category \in _WAIST_CATEGORIES
    IN  [hem_from_floor |-> IF isHem THEN hem.hem_from_floor ELSE 0,
         hem_zone |-> IF isHem THEN hem.hem_zone ELSE "",
         hemline_danger_zones |-> IF isHem THEN hem.danger_zones ELSE << >>,
         hemline_safe_zone |-> IF isHem THEN hem.safe_zone ELSE << >>,
         fabric_rise_adjustment |-> IF isHem THEN hem.fabric_rise ELSE 0,
         sleeve_endpoint_position |-> IF isSleeve THEN sleeve.endpoint_position ELSE 0,
         perceived_arm_width |-> IF isSleeve THEN sleeve.perceived_width ELSE 0,
         arm_width_delta |-> IF isSleeve THEN sleeve.delta_vs_actual ELSE 0,
         arm_prominence_severity |-> IF isSleeve THEN sleeve.arm_prominence_severity ELSE 50,
         visual_waist_height |-> IF isWaist THEN waist.visual_waist_height ELSE 0,
         visual_leg_ratio |-> IF isWaist THEN waist.visual_leg_ratio ELSE GOLDEN_RATIO,
         proportion_improvement |-> IF isWaist THEN waist.proportion_improvement ELSE 0,
         total_stretch_pct |-> resolved.total_stretch_pct,
         effective_gsm |-> resolved.effective_gsm,
         sheen_score |-> resolved.sheen_score,
         photo_reality_discount |-> resolved.photo_reality_discount]

translate_garment_to_body(garment, body) ==
    BodyAdjustedGarment(garment.category,
                        translate_hemline(garment, body),
                        translate_sleeve(garment, body),
                        translate_waistline(garment, body),
                        resolve_fabric_properties(garment))

(***************************************************************************)
(* kridha_engine.py: the principle scorers.  Each returns <<score,         *)
(* reasoning>>: the score in 1/10000, the reasoning as the sequence of the *)
(* messages joined by " | ", one token per message.                        *)
(***************************************************************************)
\* R.append(t) under condition c.
Say(c, t) == IF c THEN <<t>> ELSE << >>

\* str.lower() on a reasoning token: "N/A" is the only token with capitals
\* that matter to the pipeline's search.
LowerTok(t) == IF t = "N/A" THEN "n/a" ELSE t

\* "n/a" in reasoning.lower()
ContainsNA(reasoning) ==
    \E i \in DOMAIN reasoning : LowerTok(reasoning[i]) = "n/a"

_has_goal(body, goal) == \E i \in DOMAIN body.styling_goals : body.styling_goals[i] = goal

score_horizontal_stripes(g, b) ==
    IF ~g.has_horizontal_stripes /\ ~g.has_vertical_stripes
    THEN <<0, <<"No stripes", "N/A">> >>
    ELSE IF g.has_vertical_stripes /\ ~g.has_horizontal_stripes
    THEN LET rect == body_shape(b) = "rectangle" /\ g.zone = "torso"
             invt == body_shape(b) = "inverted_triangle" /\ g.zone = "lower_body"
             base == IF rect THEN 300 ELSE IF invt THEN -800 ELSE -500
         IN  <<clamp1(base),
               <<"V stripes vs solid">>
               \o Say(rect, "Rectangle torso: V adds shoulder width")
               \o Say(~rect /\ invt, "INVT lower: V thins hips")>>
    ELSE LET shape == body_shape(b)
             base == 300
             size_mod == IF is_plus_size(b) THEN -1000
                         ELSE IF is_petite(b) THEN 500 ELSE 0
             zone_mod ==
                 CASE shape = "pear" ->
                        IF g.zone = "torso" THEN 800
                        ELSE IF g.zone = "lower_body" THEN -500 ELSE 0
                   [] shape = "inverted_triangle" ->
                        IF g.zone = "torso" THEN -1200
                        ELSE IF g.zone = "lower_body" THEN 1000 ELSE 0
                   [] shape = "apple" -> IF g.covers_waist THEN -500 ELSE 0
                   [] shape = "rectangle" -> 500
                   [] shape = "hourglass" -> 300
                   [] OTHER -> 0
             fine == g.stripe_width_cm > 0 /\ g.stripe_width_cm < 10
             wide == g.stripe_width_cm > 0 /\ ~fine
                     /\ g.stripe_width_cm > 20 /\ is_plus_size(b)
             sw_mod == IF fine THEN 300 ELSE IF wide THEN -500 ELSE 0
             lum == is_dark(g) /\ g.has_horizontal_stripes
             lum_mod == IF lum THEN 400 ELSE 0
         IN  <<clamp1(base + size_mod + zone_mod + sw_mod + lum_mod),
               <<"H stripe base vs solid">>
               \o Say(is_plus_size(b), "Plus-size: Helmholtz nullifies")
               \o Say(~is_plus_size(b) /\ is_petite(b), "Petite: Helmholtz amplified")
               \o Say(shape = "pear" /\ g.zone = "torso", "Pear top: H adds shoulder width")
               \o Say(shape = "pear" /\ g.zone = "lower_body", "Pear bottom: attention to hip zone")
               \o Say(shape = "inverted_triangle" /\ g.zone = "torso", "INVT top: attention to broad shoulders")
               \o Say(shape = "inverted_triangle" /\ g.zone = "lower_body", "INVT bottom: adds hip volume")
               \o Say(shape = "apple" /\ g.covers_waist, "Apple midsection: H width emphasis")
               \o Say(shape = "rectangle", "Rectangle: H adds visual interest")
               \o Say(shape = "hourglass", "Hourglass: standard effect")
               \o Say(fine, "Fine stripes: stronger illusion")
               \o Say(wide, "Wide stripes + plus: measurement markers")
               \o Say(lum, "Dark H stripes: luminance bonus")>>

score_dark_slimming(g, b) ==
    LET L == g.color_lightness
    IN  IF L > 65
        THEN <<clamp1(-MulDiv(L - 65, 500, 35)), <<"Light color: slight expansion">> >>
        ELSE IF L >= 25
        THEN <<clamp1(Max(0, MulDiv(65 - L, 1500, 55))),
               <<"Mid color: proportional benefit">> >>
        ELSE
        LET shape == body_shape(b)
            bt == IF is_petite(b) /\ g.zone = "full_body" THEN 1
                  ELSE IF is_petite(b) /\ g.zone # "full_body" THEN 2
                  ELSE IF is_tall(b) THEN 3
                  ELSE IF shape = "inverted_triangle" /\ g.zone = "torso" THEN 4
                  ELSE IF shape = "hourglass" THEN 5
                  ELSE 0
            bt_mult == CASE bt = 1 -> 6 [] bt = 2 -> 9 [] bt = 3 -> 12
                         [] bt = 4 -> 14 [] bt = 5 -> 7 [] OTHER -> 10
            face == g.zone \in {"torso", "full_body"}
            warm == face /\ b.skin_undertone = "warm"
            darkskin == face /\ ~warm /\ b.skin_darkness > 70
            sallow_strength == Max(0, 10000 - MulDiv(L, 10000, 22))
            skin_mult == IF warm THEN 10000 - sallow_strength
                         ELSE IF darkskin THEN 5000 ELSE 10000
            si == sheen_index(g)
            amplified == si > 50 /\ (shape = "apple" \/ is_plus_size(b))
            sheen_penalty == IF si > 50
                             THEN IF amplified THEN -45 * (si - 50)
                                  ELSE -30 * (si - 50)
                             ELSE 0
            score == MulDiv(1500 * bt_mult, Max(skin_mult, 0), 100000) + sheen_penalty
        IN  <<clamp1(score),
              <<"Dark color: base slimming">>
              \o Say(bt = 1, "Petite all-dark: height collapse")
              \o Say(bt = 2, "Petite zone-dark: mild reduction")
              \o Say(bt = 3, "Tall: amplified lean silhouette")
              \o Say(bt = 4, "INVT upper body: maximum shoulder reduction")
              \o Say(bt = 5, "Hourglass: dark flattens curves")
              \o Say(warm, "Warm undertone near face: sallow")
              \o Say(warm /\ skin_mult < 3000, "RECOMMEND: dark chocolate brown or burgundy")
              \o Say(darkskin, "Dark skin + dark: low contrast")
              \o Say(amplified, "Apple/Plus + high sheen: amplified specular penalty")
              \o Say(si > 50, "High sheen: specular invert")>>

\* rise_cm, waistband_width_cm in 1/10 cm; waistband_stretch_pct in 1/10 %.
score_rise_elongation(g, b) ==
    IF g.rise_cm = -1 THEN <<0, <<"No rise data", "N/A">> >>
    ELSE
    LET shape == body_shape(b)
        rise_delta == g.rise_cm - 200
        base0 == clamp(rise_delta * 15, -2000, 2000)
        inverted == is_petite(b) /\ torso_score(b) <= -10000 /\ g.rise_cm > 260
        longTorso == is_petite(b) /\ ~inverted /\ torso_score(b) >= 10000
        propTorso == is_petite(b) /\ ~inverted /\ ~longTorso
        base1 == IF longTorso THEN MulDiv(base0, 15, 10)
                 ELSE IF propTorso THEN MulDiv(base0, 13, 10)
                 ELSE base0
        base2 == IF is_tall(b) THEN MulDiv(base1, 5, 10) ELSE base1
        belly == (shape = "apple" \/ is_plus_size(b)) /\ b.belly_zone > 30
        wideBand == belly /\ g.waistband_width_cm >= 50
                    /\ g.waistband_stretch_pct >= 80
        narrowBand == belly /\ ~wideBand /\ g.waistband_width_cm < 30
                      /\ g.waistband_stretch_pct < 50
        base3 == IF wideBand THEN base2 + 1000 ELSE base2
        hgHigh == shape = "hourglass" /\ g.rise_cm # 0 /\ g.rise_cm > 240
        base4 == IF hgHigh THEN base3 + 300 ELSE base3
        invtHigh == shape = "inverted_triangle" /\ g.rise_cm # 0
                    /\ g.rise_cm > 260 /\ g.expansion_rate < 3
        base5 == IF invtHigh THEN MulDiv(base4, 6, 10) ELSE base4
        R1 == <<"Rise: base">>
        R2 == R1 \o Say(longTorso, "Petite + long torso: amplified")
                 \o Say(propTorso, "Petite + proportional: amplified")
                 \o Say(is_tall(b), "Tall: diminishing returns")
    IN  IF inverted
        THEN <<clamp1(-3000), R1 \o <<"Petite + short torso + high rise: INVERTED">> >>
        ELSE IF narrowBand
        THEN <<clamp1(-2500), R2 \o <<"Narrow rigid waistband: muffin top">> >>
        ELSE <<clamp1(base5),
               R2 \o Say(wideBand, "Wide elastic waistband: smooth containment")
                  \o Say(hgHigh, "Hourglass + high rise: smooth waist-to-hip")
                  \o Say(invtHigh, "INVT + high rise + slim leg")>>

score_aline_balance(g, b) ==
    IF g.expansion_rate < 3 THEN <<0, <<"ER < 0.03: not A-line", "N/A">> >>
    ELSE
    LET er == g.expansion_rate
        shape == body_shape(b)
        base == IF er <= 6 THEN 1000 + (er - 3) * 500
                ELSE IF er <= 12 THEN 2500
                ELSE IF er <= 18 THEN 2500 - (er - 12) * 250
                ELSE Max(-1000, 1000 - MulDiv(er - 18, 1000, 12))
        dc == drape_coefficient(g)
        drape0 == IF dc < 40 THEN 100 ELSE IF dc < 65 THEN 70 ELSE -50
        bt == IF shape = "inverted_triangle" THEN 1
              ELSE IF is_tall(b) THEN 2
              ELSE IF is_petite(b) THEN 3
              ELSE IF shape = "hourglass" THEN 4
              ELSE IF shape = "pear" THEN 5
              ELSE IF shape = "apple" THEN 6
              ELSE 0
        bt_mod == CASE bt = 1 -> 1500
                    [] bt = 2 -> 1000
                    [] bt = 3 -> IF er > 12 THEN -1500 ELSE 500
                    [] bt = 4 -> 500
                    [] bt = 5 -> 500
                    [] bt = 6 -> 300
                    [] OTHER -> 0
        shelf == is_plus_size(b) /\ drape0 < 0
        drape_mult == IF shelf THEN -75 ELSE drape0
        hem_mod == IF shape = "pear"
                   THEN IF g.hem_position = "mid_thigh" THEN -1000
                        ELSE IF g.hem_position = "knee" THEN 500 ELSE 0
                   ELSE 0
        score == MulDiv(base, Max(drape_mult, -100), 100) + bt_mod + hem_mod
    IN  <<clamp1(score),
          <<"ER: base A-line">>
          \o Say(dc < 40, "DC (drapey): full benefit")
          \o Say(dc >= 40 /\ dc < 65, "DC (medium): x0.7")
          \o Say(dc >= 65, "DC (stiff): shelf effect INVERSION")
          \o Say(bt = 1, "INVT: max A-line benefit")
          \o Say(bt = 2, "Tall: carries volume")
          \o Say(bt = 3 /\ er > 12, "Petite: overwhelms frame")
          \o Say(bt = 3 /\ er <= 12, "Petite: scale-appropriate")
          \o Say(shelf, "Plus + stiff A-line: shelf amplified")>>

score_tent_concealment(g, b) ==
    LET er == g.expansion_rate
        shape == body_shape(b)
    IN  IF 3 <= er /\ er <= 8
        THEN LET plusStruct == is_plus_size(b) /\ g.is_structured
             IN  <<clamp1(IF plusStruct THEN 2000
                          ELSE IF shape = "hourglass" THEN 500 ELSE 1500),
                   <<"ER: semi-fitted optimal">>
                   \o Say(shape = "hourglass", "Hourglass: semi-fitted slightly masks curves")
                   \o Say(plusStruct, "Plus + structured semi-fitted: smooth containment")>>
        ELSE IF er < 12 THEN <<0, <<"ER: not tent", "N/A">> >>
        ELSE
        LET has_concealment == _has_goal(b, "concealment") \/ _has_goal(b, "hide_midsection")
            has_slimming == _has_goal(b, "slimming") \/ _has_goal(b, "slim_hips")
            conceal == has_concealment /\ ~has_slimming
            slim == has_slimming /\ ~has_concealment
            \* balance: concealment * 0.3 + slimming * 0.7
            base == IF conceal THEN (IF er > 20 THEN 3500 ELSE 2500)
                    ELSE IF slim THEN (IF er > 20 THEN -4000 ELSE -2000)
                    ELSE (IF er > 20 THEN -1750 ELSE -650)
            bt == IF shape = "hourglass" THEN 1
                  ELSE IF is_petite(b) THEN 2
                  ELSE IF is_plus_size(b) THEN 3
                  ELSE IF shape = "inverted_triangle" THEN 4
                  ELSE IF is_tall(b) THEN 5
                  ELSE IF shape = "rectangle" THEN 6
                  ELSE 0
            bt_mod == CASE bt = 1 -> -2000 [] bt = 2 -> -1500 [] bt = 3 -> -1000
                        [] bt = 4 -> -1000 [] bt = 5 -> 1000 [] bt = 6 -> 500
                        [] OTHER -> 0
        IN  <<clamp1(base + bt_mod),
              Say(conceal, "Goal=concealment: excellent hiding")
              \o Say(slim, "Goal=slimming: perceived bigger")
              \o Say(slim, "CONCEALMENT PARADOX: hides contours but amplifies size")
              \o Say(~conceal /\ ~slim, "Goal=balance: weighted toward slimming")
              \o Say(bt = 1, "HOURGLASS REVERSAL: tent destroys WHR")
              \o Say(bt = 2, "PETITE REVERSAL: fabric overwhelms frame")
              \o Say(bt = 3, "PLUS REVERSAL: max size overestimate")
              \o Say(bt = 4, "INVT: lampshade from shoulders")
              \o Say(bt = 5, "Tall: carries volume")
              \o Say(bt = 6, "Rectangle: less curve to hide")>>

score_color_break(g, b) ==
    IF ~g.has_contrasting_belt /\ ~g.has_tonal_belt
    THEN <<0, <<"No belt/break", "N/A">> >>
    ELSE IF g.has_tonal_belt /\ ~g.has_contrasting_belt
    THEN <<-300, <<"Tonal belt: mild break">> >>
    ELSE
    LET shape == body_shape(b)
        R0 == <<"Contrasting belt: base leg shortening">>
        bt == IF is_petite(b) THEN 1
              ELSE IF shape = "apple" THEN 2
              ELSE IF is_tall(b) THEN 3
              ELSE IF shape = "inverted_triangle" THEN 4
              ELSE IF shape = "rectangle" THEN 5
              ELSE IF shape = "pear" THEN 6
              ELSE 0
        narrow == whr(b) < 7500
        base1 == CASE bt = 1 -> -1500
                   [] bt = 2 -> -2500
                   [] bt = 3 -> -300
                   [] bt = 4 -> 800
                   [] bt = 5 -> 500
                   [] bt = 6 -> IF narrow THEN 500 ELSE -1000
                   [] OTHER -> -1000
        plusBelly == is_plus_size(b) /\ b.belly_zone > 50
        plusFlat == is_plus_size(b) /\ ~plusBelly /\ b.belly_zone < 20
        base2 == IF plusBelly THEN Min(base1, -2000)
                 ELSE IF plusFlat THEN Max(base1, 500)
                 ELSE base1
    IN  IF shape = "hourglass"
        THEN <<clamp1(IF g.belt_width_cm >= 50 THEN 2500 ELSE 2000),
               R0 \o <<"HOURGLASS REVERSAL: belt highlights waist">> >>
        ELSE <<clamp1(base2),
               R0 \o Say(bt = 1, "Petite: can't afford shortening")
                  \o Say(bt = 2, "Apple: belt spotlights widest zone")
                  \o Say(bt = 3, "Tall: can afford shortening")
                  \o Say(bt = 4, "INVT: draws eye to waist")
                  \o Say(bt = 5, "Rectangle: creates waist definition")
                  \o Say(bt = 6 /\ narrow, "Pear + narrow waist")
                  \o Say(bt = 6 /\ ~narrow, "Pear + moderate waist")
                  \o Say(plusBelly, "Plus + belly: belt at widest")
                  \o Say(plusFlat, "Plus + no belly: belt creates waist")>>

\* Bodycon mapping without the athletic-apple branch.
score_bodycon_mapping_noAthlete(g, b) ==
    IF g.expansion_rate > 3 THEN <<0, <<"ER: not bodycon", "N/A">> >>
    ELSE
    LET shape == body_shape(b)
        is_thin == g.gsm_estimated < 200 /\ ~g.is_structured
        is_structured == g.gsm_estimated >= 250 \/ g.is_structured
    IN  IF shape = "hourglass"
        THEN <<clamp1((IF is_structured THEN 3500 ELSE 3000)
                      - (IF b.belly_zone > 50 THEN 1500 ELSE 0)),
               <<"HOURGLASS REVERSAL: bodycon maps best feature">>
               \o Say(b.belly_zone > 50, "Belly concern offset")>>
        ELSE IF shape = "apple"
        THEN <<clamp1(IF is_thin THEN -4000 ELSE -1200),
               <<IF is_thin THEN "Apple + thin bodycon"
                 ELSE "Apple + structured bodycon">> >>
        ELSE IF shape = "pear"
        THEN <<clamp1(IF is_thin THEN -3000 ELSE -900),
               <<IF is_thin THEN "Pear + thin" ELSE "Pear + structured">> >>
        ELSE IF is_plus_size(b)
        THEN <<clamp1(IF is_thin THEN -4000 ELSE -500),
               <<IF is_thin THEN "Plus + thin" ELSE "Plus + structured (sculpts)">> >>
        ELSE IF shape = "inverted_triangle"
        THEN <<clamp1(IF g.zone = "full_body" THEN -1500
                      ELSE IF g.zone = "lower_body" THEN -500 ELSE -1000),
               <<"INVT bodycon">> >>
        ELSE IF shape = "rectangle"
        THEN <<0, <<"Rectangle + bodycon: neutral">> >>
        ELSE <<clamp1(-1000), <<"Default bodycon: mild penalty">> >>

score_bodycon_mapping(g, b) ==
    IF g.expansion_rate > 3 THEN <<0, <<"ER: not bodycon", "N/A">> >>
    ELSE
    LET shape == body_shape(b)
        is_thin == g.gsm_estimated < 200 /\ ~g.is_structured
        is_structured == g.gsm_estimated >= 250 \/ g.is_structured
    IN  IF shape = "hourglass"
        THEN <<clamp1((IF is_structured THEN 3500 ELSE 3000)
                      - (IF b.belly_zone > 50 THEN 1500 ELSE 0)),
               <<"HOURGLASS REVERSAL: bodycon maps best feature">>
               \o Say(b.belly_zone > 50, "Belly concern offset")>>
        ELSE IF shape = "apple"
        THEN IF b.is_athletic
             THEN <<clamp1(2000), <<"Athletic apple: showcases tone">> >>
             ELSE <<clamp1(IF is_thin THEN -4000 ELSE -1200),
                    <<IF is_thin THEN "Apple + thin bodycon"
                      ELSE "Apple + structured bodycon">> >>
        ELSE IF shape = "pear"
        THEN <<clamp1(IF is_thin THEN -3000 ELSE -900),
               <<IF is_thin THEN "Pear + thin" ELSE "Pear + structured">> >>
        ELSE IF is_plus_size(b)
        THEN <<clamp1(IF is_thin THEN -4000 ELSE -500),
               <<IF is_thin THEN "Plus + thin" ELSE "Plus + structured (sculpts)">> >>
        ELSE IF shape = "inverted_triangle"
        THEN <<clamp1(IF g.zone = "full_body" THEN -1500
                      ELSE IF g.zone = "lower_body" THEN -500 ELSE -1000),
               <<"INVT bodycon">> >>
        ELSE IF shape = "rectangle"
        THEN <<0, <<"Rectangle + bodycon: neutral">> >>
        ELSE <<clamp1(-1000), <<"Default bodycon: mild penalty">> >>

score_matte_zone(g, b) ==
    LET si == sheen_index(g)
        shape == body_shape(b)
        base0 == IF si < 15 THEN 800
                 ELSE IF si < 35 THEN (35 - si) * 40
                 ELSE IF si <= 50 THEN 0
                 ELSE -20 * (si - 50)
        bt == IF shape = "apple" THEN 1
              ELSE IF is_plus_size(b) THEN 2
              ELSE IF shape = "pear" /\ g.zone \in {"lower_body", "full_body"} THEN 3
              ELSE IF shape = "hourglass" THEN 4
              ELSE IF shape = "inverted_triangle" /\ g.zone = "torso" THEN 5
              ELSE 0
        bt_mult == CASE bt = 1 -> 15 [] bt = 2 -> 15 [] bt = 3 -> 13
                     [] bt = 4 -> 5 [] bt = 5 -> 12 [] OTHER -> 10
        enhanced == bt = 4 /\ 35 < si /\ si < 55
        base == IF enhanced THEN 500 ELSE base0
        trap == cling_risk(g) > 6000 /\ si < 30
    IN  IF trap /\ is_plus_size(b)
        THEN <<clamp1(-1500), <<"CLING TRAP: matte+clingy on plus">> >>
        ELSE IF trap /\ shape = "pear"
        THEN <<clamp1(-1000), <<"CLING TRAP: matte+clingy on pear">> >>
        ELSE IF trap /\ shape = "apple"
        THEN <<clamp1(-1200), <<"CLING TRAP: matte+clingy on apple">> >>
        ELSE <<clamp1(MulDiv(base, bt_mult, 10)),
               Say(si < 15, "Deeply matte")
               \o Say(si >= 15 /\ si < 35, "Low sheen")
               \o Say(si >= 35 /\ si <= 50, "Neutral sheen")
               \o Say(si > 50, "High sheen")
               \o Say(enhanced, "Hourglass + moderate sheen: curves enhanced")>>

_neckline_str(g) == g.neckline

score_vneck_elongation(g, b) ==
    LET neck == _neckline_str(g)
        shape == body_shape(b)
    IN  IF neck # "v_neck" /\ neck # "deep_v"
        THEN CASE neck = "crew" -> <<0, <<"Crew neck: neutral">> >>
               [] neck \in {"boat", "off_shoulder"} ->
                    IF shape = "inverted_triangle"
                    THEN <<clamp1(-1500), <<"Boat/off-shoulder on INVT: widens shoulders">> >>
                    ELSE IF shape = "rectangle"
                    THEN <<clamp1(800), <<"Boat on rectangle: adds width">> >>
                    ELSE IF shape = "pear"
                    THEN <<clamp1(500), <<"Boat on pear: shoulder balance">> >>
                    ELSE <<0, <<"Neckline: neutral">> >>
               [] neck = "scoop" ->
                    <<clamp1(IF shape = "inverted_triangle" THEN 800 ELSE 500),
                      <<"Scoop: mild elongation">> >>
               [] neck = "turtleneck" ->
                    IF shape = "inverted_triangle"
                    THEN <<clamp1(-500), <<"Turtleneck on INVT: upper mass">> >>
                    ELSE IF is_petite(b) /\ torso_score(b) <= -10000
                    THEN <<clamp1(1000), <<"Turtleneck petite short-torso: keeps eye UP">> >>
                    ELSE <<0, <<"Turtleneck: neutral">> >>
               [] neck = "wrap" -> <<clamp1(800), <<"Wrap neckline: mild V-effect">> >>
               [] OTHER -> <<0, <<"Neckline: not scored">> >>
        ELSE
        LET bt == IF shape = "inverted_triangle" THEN 1
                  ELSE IF shape = "hourglass" THEN 2
                  ELSE IF is_petite(b) THEN 3
                  ELSE IF shape = "apple" THEN 4
                  ELSE IF is_tall(b) THEN 5
                  ELSE IF shape = "pear" THEN 6
                  ELSE 0
            shortTorso == torso_score(b) <= -10000
            highRise == g.rise_cm # -1 /\ g.rise_cm # 0 /\ g.rise_cm > 260
            base == CASE bt = 1 -> 1800
                      [] bt = 2 -> 1200
                      [] bt = 3 -> IF shortTorso
                                   THEN (IF highRise THEN -500 ELSE 1500)
                                   ELSE 1200
                      [] bt = 4 -> 1000
                      [] bt = 5 -> 500
                      [] bt = 6 -> 1000
                      [] OTHER -> 1000
        IN  <<clamp1(base),
              <<"V-neck: base elongation">>
              \o Say(bt = 1, "INVT: narrows shoulder line")
              \o Say(bt = 2, "Hourglass: frames bust to waist")
              \o Say(bt = 3 /\ shortTorso /\ highRise, "Petite short-torso + V + high rise: CONFLICT")
              \o Say(bt = 3 /\ shortTorso /\ ~highRise, "Petite short-torso + V + mid rise: harmonious")
              \o Say(bt = 3 /\ ~shortTorso, "Petite: vertical channel")
              \o Say(bt = 4, "Apple: eye to face, away from belly")
              \o Say(bt = 5, "Tall: diminishing returns")
              \o Say(bt = 6, "Pear: attention upward")>>

score_monochrome_column(g, b) ==
    IF ~g.is_monochrome_outfit THEN <<0, <<"Not monochrome", "N/A">> >>
    ELSE
    LET shape == body_shape(b)
        belted == g.has_contrasting_belt \/ g.has_tonal_belt
        base == IF is_petite(b) THEN 1500
                ELSE IF is_tall(b) THEN 300
                ELSE IF shape = "hourglass" THEN (IF belted THEN 1200 ELSE 300)
                ELSE IF shape = "inverted_triangle" THEN 500
                ELSE IF shape = "apple" THEN 800
                ELSE IF shape = "pear" THEN (IF g.color_lightness < 30 THEN 1200 ELSE 500)
                ELSE IF is_plus_size(b) THEN 1000
                ELSE 800
        plusDark == is_plus_size(b) /\ is_dark(g)
        dark_bonus == IF plusDark THEN 800 ELSE IF is_dark(g) THEN 700 ELSE 0
    IN  <<clamp1(base + dark_bonus),
          Say(is_petite(b), "Petite: AMPLIFIED monochrome")
          \o Say(~is_petite(b) /\ is_tall(b), "Tall: doesn't need height")
          \o Say(~is_petite(b) /\ ~is_tall(b) /\ shape = "hourglass" /\ belted,
                 "Hourglass + mono + belt: best of both")
          \o Say(plusDark, "Plus + dark mono: most reliable combo")>>

score_hemline(g, b) ==
    With(translate_hemline(g, b), LAMBDA hem :
    LET zone == hem.hem_zone
        shape == body_shape(b)
        R0 == <<"Hem from floor -> " \o zone>>
    IN  CASE zone \in {"above_knee", "above_knee_near"} ->
            LET inches_above == hem.hem_from_floor - b.h_knee
                e0 == Min(inches_above * 20, 6000)
                e1 == IF is_petite(b) THEN Min(e0 + (6300 - b.height) * 2, 8000) ELSE e0
                longLegs == is_tall(b) /\ leg_ratio(b) > 62000
                elongation == IF longLegs THEN MulDiv(e1, 65, 100) ELSE e1
                tp0 == IF b.c_thigh_max > 2700 THEN -3500
                       ELSE IF b.c_thigh_max > 2400 THEN -2000
                       ELSE IF b.c_thigh_max > 2200 THEN -1000
                       ELSE 0
                thigh_penalty == IF b.goal_legs = "showcase" THEN MulDiv(tp0, 5, 10)
                                 ELSE IF b.goal_hip = "narrower" THEN MulDiv(tp0, 12, 10)
                                 ELSE tp0
                apple_bonus == IF shape = "apple"
                               THEN IF b.c_thigh_max < 2200 THEN 1500
                                    ELSE IF b.c_thigh_max < 2400 THEN 800 ELSE 0
                               ELSE 0
            IN  <<clamp1(elongation + thigh_penalty + apple_bonus),
                  R0 \o Say(is_petite(b), "Petite above-knee: elongation")
                     \o Say(longLegs, "Tall + long legs: diminished above-knee benefit")>>
          [] zone = "knee_danger" ->
            <<clamp1(IF is_petite(b) THEN -4000 ELSE -3000), R0 \o <<"Knee danger zone">> >>
          [] zone = "safe_zone" ->
            LET sz == hem.safe_zone
                \* 0.25 <= (sz[1] - hem_from_floor) / safe_zone_size <= 0.75
                mid == sz # << >>
                       /\ 4 * (sz[2] - hem.hem_from_floor) >= hem.safe_zone_size
                       /\ 4 * (sz[2] - hem.hem_from_floor) <= 3 * hem.safe_zone_size
                score == (IF mid THEN 3000 ELSE 1500) + (IF is_tall(b) THEN 1000 ELSE 0)
            IN  <<clamp1(score), R0 \o <<"Safe zone">> >>
          [] zone = "collapsed_zone" ->
            <<clamp1(-2000), R0 \o <<"Collapsed safe zone">> >>
          [] zone = "calf_danger" ->
            LET calf_prom == calf_prominence(b)
                base0 == IF calf_prom > 13000 THEN -5000
                         ELSE IF calf_prom > 12000 THEN -4200
                         ELSE -3500
                base == IF is_petite(b) THEN MulDiv(base0, 115, 100) ELSE base0
            IN  <<clamp1(base), R0 \o <<"Calf danger zone">> >>
          [] zone = "below_calf" -> <<clamp1(1500), <<"Below calf: safe">> >>
          [] zone = "ankle" ->
            LET s0 == IF is_petite(b)
                      THEN IF g.silhouette \in {"oversized", "shift"} THEN -1500
                           ELSE IF g.silhouette = "fitted" /\ g.has_waist_definition THEN 4000
                           ELSE IF g.silhouette = "fitted" THEN 1500
                           ELSE 1000
                      ELSE IF is_tall(b) THEN 4500
                      ELSE 2500
                score == IF shape = "hourglass" /\ ~g.has_waist_definition
                         THEN s0 - 1500 ELSE s0
            IN  <<clamp1(score), R0 \o <<"Ankle">> >>
          [] zone = "floor" ->
            <<clamp1(IF is_tall(b) THEN 1500 ELSE IF is_petite(b) THEN -1000 ELSE 500),
              R0 \o <<"Floor">> >>
          [] OTHER -> <<0, <<"Unknown zone", "N/A">> >>)

score_sleeve(g, b) ==
    IF g.sleeve_type = "sleeveless" THEN <<0, <<"Sleeveless: baseline", "N/A">> >>
    ELSE
    With(translate_sleeve(g, b), LAMBDA sleeve :
    LET delta == sleeve.delta_vs_actual
        severity == sleeve.arm_prominence_severity
        score0 == IF delta > 300 THEN -40000
                  ELSE IF delta > 150 THEN -20000
                  ELSE IF delta > 0 THEN -10000
                  ELSE IF delta > -300 THEN 10000
                  ELSE IF delta > -600 THEN 30000
                  ELSE 50000
        score1 == IF score0 < 0 THEN MulDiv(score0, severity, 100)
                  ELSE MulDiv(score0, 100 + severity, 200)
        flutter == g.sleeve_type = "flutter"
        score == IF flutter THEN score1 + 20000 ELSE score1
        normalized == clamp(MulDiv(score, 1, 5), -10000, 10000)
    IN  <<normalized,
          <<"Sleeve endpoint, delta, severity">>
          \o Say(flutter, "Flutter: +2 qualitative bonus")
          \o <<"Raw score -> normalized">> >>)

score_waist_placement(g, b) ==
    IF g.waist_position = "no_waist" THEN <<0, <<"No waist definition", "N/A">> >>
    ELSE
    LET waist == translate_waistline(g, b)
        shape == body_shape(b)
        empireHg == g.waist_position = "empire" /\ shape = "hourglass"
        \* stretch = elastane_pct * 1.6 > 10
        stretchy == g.elastane_pct * 16 > 1000
        drapey == g.drape > 70
        m1 == IF empireHg
              THEN IF stretchy THEN -1000 ELSE IF drapey THEN -1500 ELSE -3000
              ELSE 0
        empireBust == g.waist_position = "empire" /\ bust_differential(b) >= 600
                      /\ g.drape < 40
        \* tent_severity = bust_differential * 0.4 * (1 - drape / 10), times 100000
        tent_severity == bust_differential(b) * 4 * (100 - g.drape)
        m2 == IF empireBust
              THEN IF tent_severity > 200000 THEN -4500
                   ELSE IF tent_severity > 100000 THEN -2500 ELSE -1000
              ELSE 0
        drop == g.waist_position = "drop"
        m3 == IF drop
              THEN IF leg_ratio(b) < 55000 THEN -3000
                   ELSE IF leg_ratio(b) < 58000 THEN -1500 ELSE 0
              ELSE 0
        appleBelt == shape = "apple" /\ g.waist_position = "natural"
                     /\ g.has_contrasting_belt /\ whr(b) > 8500
        \* prop_score -= (0.30 if b.whr > 0.88 else -0.15)
        m4 == IF appleBelt THEN -(IF whr(b) > 8800 THEN 3000 ELSE -1500) ELSE 0
        prop_score == waist.proportion_score + m1 + m2 + m3 + m4
    IN  <<clamp(prop_score, -8000, 8000),
          <<"Waist: visual leg ratio, improvement">>
          \o Say(empireHg /\ stretchy, "Empire + hourglass + stretch: mild shape loss")
          \o Say(empireHg /\ ~stretchy /\ drapey, "Empire + hourglass + drapey: shape loss")
          \o Say(empireHg /\ ~stretchy /\ ~drapey, "Empire + hourglass + stiff: significant shape loss")
          \o Say(empireBust /\ tent_severity > 200000, "Empire + large bust + stiff: tent effect")
          \o Say(drop /\ leg_ratio(b) < 55000, "Drop waist + short legs: proportion penalty")
          \o Say(appleBelt, "Apple + belt at natural waist: spotlights widest")>>

score_color_value(g, b) ==
    LET L == g.color_lightness
        shape == body_shape(b)
        \* slim_pct * 6.25
        slim_score == IF L <= 10 THEN 2500
                      ELSE IF L <= 25 THEN 1875
                      ELSE IF L <= 40 THEN 1250
                      ELSE IF L <= 60 THEN MulDiv(50, 625, 100)
                      ELSE IF L <= 80 THEN MulDiv(-50, 625, 100)
                      ELSE -625
        hgDark == L <= 25 /\ shape = "hourglass"
        rectDark == L <= 25 /\ shape = "rectangle"
        whd == b.bust - b.waist
        shape_loss == IF hgDark
                      THEN IF whd >= 800 THEN -120 * (25 - L)
                           ELSE IF whd >= 600 THEN -80 * (25 - L)
                           ELSE -40 * (25 - L)
                      ELSE IF rectDark THEN 500 ELSE 0
        skin_garment_contrast == Abs(b.skin_tone_L - L)
        contrast_mod == IF L <= 15 /\ g.zone \in {"torso", "full_body"}
                        THEN IF skin_garment_contrast > 70 THEN -500
                             ELSE IF skin_garment_contrast < 30 THEN 500 ELSE 0
                        ELSE 0
    IN  <<clamp1(slim_score + shape_loss + contrast_mod),
          <<"Color L: slim_pct, score">>
          \o Say(hgDark, "Hourglass dark shape loss")
          \o Say(rectDark, "Rectangle dark: clean column bonus")>>

score_fabric_zone(g, b) ==
    LET resolved == resolve_fabric_properties(g)
        cling_score == IF resolved.cling_risk_base > 6000
                       THEN IF is_plus_size(b) \/ b.belly_zone > 50 THEN -4000 ELSE -2000
                       ELSE IF resolved.cling_risk_base > 3000 THEN -500
                       ELSE 1000
        struct_score == IF resolved.is_structured THEN 1500
                        ELSE IF resolved.effective_gsm > 2500 THEN 800
                        ELSE IF resolved.effective_gsm < 1000 THEN -1000
                        ELSE 0
        sheen_score == score_matte_zone(g, b)[1]
        dc == resolved.drape_coefficient
        drape_score == IF dc < 30 THEN 1000
                       ELSE IF dc < 50 THEN 500
                       ELSE IF dc < 70 THEN 0
                       ELSE -1000
        \* weights 0.30, 0.20, 0.15, 0.10 and five zero sub-scores: total_w = 1
        total == cling_score * 30 + struct_score * 20 + sheen_score * 15
                 + drape_score * 10
        total_w == 30 + 20 + 15 + 10 + 8 + 5 + 5 + 4 + 3
    IN  <<clamp1(MulDiv(total, 1, total_w)), <<"Fabric zone: stretch, GSM, sheen">> >>

\* BUST_DIVIDING_THRESHOLDS by bust differential, in 1/1000 inch.
get_bust_dividing_threshold(bd) ==
    IF bd <= 400 THEN 7000
    ELSE IF bd <= 500 THEN 6000
    ELSE IF bd <= 600 THEN 5000
    ELSE IF bd <= 700 THEN 4500
    ELSE IF bd <= 800 THEN 4000
    ELSE 3500

\* Depths in 1/1000 inch; v_depth_cm in 1/10 cm.
score_neckline_compound(g, b) ==
    LET neck == _neckline_str(g)
        shape == body_shape(b)
    IN  IF neck \notin {"v_neck", "deep_v", "wrap", "scoop"}
        THEN <<0, <<"Neckline: no compound scoring", "N/A">> >>
        ELSE
        LET depth == IF g.neckline_depth # -1 /\ g.neckline_depth # 0
                     THEN 10 * g.neckline_depth
                     ELSE IF g.v_depth_cm > 0 THEN MulDiv(g.v_depth_cm, 10000, 254)
                     ELSE 4000
            bd == bust_differential(b)
            threshold == get_bust_dividing_threshold(bd)
            effective_depth == depth + g.elastane_pct
                               + (IF shape = "hourglass" /\ bd >= 600 THEN 750 ELSE 0)
                               + (IF is_plus_size(b) /\ bd >= 800 THEN 1000 ELSE 0)
            \* depth_ratio = effective_depth / threshold, in hundredths
            depth_ratio == IF threshold > 0
                           THEN (100 * effective_depth) \div threshold ELSE 100
            band == IF 100 * effective_depth < 60 * threshold THEN 1
                    ELSE IF 100 * effective_depth < 85 * threshold THEN 2
                    ELSE IF effective_depth < threshold THEN 3
                    ELSE IF 100 * effective_depth < 115 * threshold THEN 4
                    ELSE 5
            bust_score ==
                CASE band = 1 -> 3000
                  [] band = 2 -> 5000
                  [] band = 3 -> IF b.goal_bust = "enhance" THEN 7000
                                 ELSE IF b.goal_bust = "minimize" THEN -2000 ELSE 3000
                  [] band = 4 -> IF b.goal_bust = "enhance" THEN 3000
                                 ELSE IF b.goal_bust = "minimize" THEN -6000 ELSE -1500
                  [] OTHER -> IF b.goal_bust = "enhance" THEN 1000
                              ELSE IF b.goal_bust = "minimize" THEN -8500 ELSE -3500
            \* v_angle = (v_depth_cm * 0.8) / depth, compared by cross-multiplying
            torso0 == IF depth > 0
                      THEN IF g.v_depth_cm * 160 < depth THEN 2500
                           ELSE IF g.v_depth_cm * 80 < depth THEN 1800
                           ELSE IF g.v_depth_cm * 160 < 3 * depth THEN 1000
                           ELSE 500
                      ELSE 1000
            torso_base == IF shape = "apple" THEN MulDiv(torso0, 130, 100)
                          ELSE IF shape = "rectangle" THEN MulDiv(torso0, 115, 100)
                          ELSE torso0
            balance == CASE shape = "inverted_triangle" -> 4500
                         [] shape = "pear" -> 3000
                         [] shape = "rectangle" -> 2000
                         [] shape = "hourglass" -> 1000
                         [] OTHER -> 1500
            compound == MulDiv(4 * bust_score + 3 * torso_base + 3 * balance, 1, 10)
        IN  <<clamp1(compound), <<"Bust: depth, threshold, ratio, score", "Compound">> >>

(***************************************************************************)
(* garment_types.py: the four type-specific scorers                        *)
(***************************************************************************)
score_top_hemline(g, b) ==
    LET behavior == g.top_hem_behavior
        hem_pos == IF g.top_hem_length \in {"none", ""} THEN "at_hip" ELSE g.top_hem_length
        shape == body_shape(b)
        heavy == g.gsm_estimated > 250
        fit == IF g.fit_category \in {"none", ""} THEN g.silhouette_label ELSE g.fit_category
        relaxed == fit \in {"relaxed", "loose"}
    IN  IF behavior = "tucked"
        THEN <<clamp1(1500 - (IF heavy THEN 2000 ELSE 0)),
               <<"Tucked: hem invisible, waist definition">>
               \o Say(heavy, "Heavy fabric tucked: bulk at waist")>>
        ELSE IF behavior = "half_tucked"
        THEN LET hw == _has_goal(b, "highlight_waist")
             IN  <<clamp1(2000 + (IF shape = "pear" THEN 1000
                                  ELSE IF shape = "apple" THEN 500 ELSE 0)
                               + (IF hw THEN 1000 ELSE 0)
                               - (IF heavy THEN 1500 ELSE 0)),
                   <<"Half-tucked: partial waist definition">>
                   \o Say(shape = "pear", "Pear: asymmetric break disrupts hip-level line")
                   \o Say(shape = "apple", "Apple: partial tuck draws eye to waist area")
                   \o Say(hw, "highlight_waist: partial definition")
                   \o Say(heavy, "Heavy fabric: bunching at tuck point")>>
        ELSE IF behavior = "bodysuit"
        THEN <<clamp1(1000), <<"Bodysuit: no visible hem, smooth line">> >>
        ELSE IF behavior = "cropped" \/ hem_pos = "cropped"
        THEN LET shortT == is_petite(b) /\ torso_leg_ratio(b) < 4800
                 propT == is_petite(b) /\ ~shortT
                 exposed == shape = "apple" /\ _has_goal(b, "hide_midsection")
                 score == IF exposed THEN -7000
                          ELSE IF shortT THEN -3500
                          ELSE IF propT THEN 3000 ELSE 1500
             IN  <<clamp1(score),
                   <<"Cropped top: break above waist">>
                   \o Say(shortT, "Petite + short torso: further shortening")
                   \o Say(propT, "Petite + proportional torso: lengthens legs")
                   \o Say(exposed, "Apple + hide_midsection: crop exposes midsection")>>
        ELSE IF hem_pos = "at_waist"
        THEN <<clamp1(2000 + (IF _has_goal(b, "highlight_waist") THEN 1500 ELSE 0)),
               <<"At waist: defines waist">> >>
        ELSE IF hem_pos = "just_below_waist"
        THEN <<clamp1(1500), <<"Just below waist: slight torso lengthening">> >>
        ELSE IF hem_pos = "at_hip"
        THEN LET sh == _has_goal(b, "slim_hips")
                 score == CASE shape = "pear" ->
                                 (IF relaxed THEN -3000 ELSE -4500)
                                 - (IF sh THEN 1000 ELSE 0)
                            [] shape = "inverted_triangle" -> 3500
                            [] shape = "apple" -> IF relaxed THEN 2000 ELSE -1500
                            [] OTHER -> 0
             IN  <<clamp1(score),
                   <<"At hip: critical zone">>
                   \o Say(shape = "pear", "Pear: line at widest hip point")
                   \o Say(shape = "pear" /\ sh, "+ slim_hips goal: amplified")
                   \o Say(shape = "inverted_triangle", "INVT: hip-level hem adds visual weight below")
                   \o Say(shape = "apple" /\ relaxed, "Apple + relaxed: skims past midsection")
                   \o Say(shape = "apple" /\ ~relaxed, "Apple + fitted: pulls at midsection")
                   \o Say(shape \notin {"pear", "inverted_triangle", "apple"},
                          "Neutral body type: hip-level is default")>>
        ELSE IF hem_pos \in {"below_hip", "tunic_length"}
        THEN LET cover == _has_goal(b, "slim_hips") \/ _has_goal(b, "hide_midsection")
                 taller == _has_goal(b, "look_taller")
                 tunic == hem_pos = "tunic_length"
                 score == (IF cover THEN 3500 ELSE 0)
                          + (IF taller THEN (IF tunic THEN -3500 ELSE -2000) ELSE 0)
                          - (IF is_petite(b) /\ tunic THEN 2000 ELSE 0)
             IN  <<clamp1(score),
                   <<hem_pos \o ": covers hips, shortens leg line">>
                   \o Say(cover, "Coverage goal met: good for hip/midsection hiding")
                   \o Say(taller, "Shortens leg line")
                   \o Say(is_petite(b) /\ tunic, "Petite + tunic: overwhelms frame")>>
        ELSE <<0, <<"Top hemline", "N/A">> >>

score_pant_rise(g, b) ==
    IF g.rise = "none" /\ g.rise_cm = -1 THEN <<0, <<"No rise data", "N/A">> >>
    ELSE
    LET rise == IF g.rise # "none" THEN g.rise
                ELSE IF g.rise_cm > 260 THEN "high"
                ELSE IF g.rise_cm > 220 THEN "mid"
                ELSE "low"
        shape == body_shape(b)
        taller == _has_goal(b, "look_taller")
    IN  IF rise \in {"high", "ultra_high"}
        THEN LET hw == _has_goal(b, "highlight_waist")
                 apple == shape = "apple" /\ whr(b) > 8500
                 stretchBand == g.waistband_stretch_pct # 0 /\ g.waistband_stretch_pct >= 80
             IN  <<clamp1(2500 + (IF taller THEN 2500 ELSE 0)
                               + (IF hw THEN 1500 ELSE 0)
                               - (IF apple THEN (IF stretchBand THEN 1000 ELSE 2500) ELSE 0)
                               + (IF is_petite(b) THEN 1000 ELSE 0)),
                   <<"High rise: leg elongation base">>
                   \o Say(taller, "look_taller goal: amplified")
                   \o Say(hw, "highlight_waist: waistband cinches")
                   \o Say(apple /\ stretchBand, "Apple: stretch waistband mitigates muffin risk")
                   \o Say(apple /\ ~stretchBand, "Apple: muffin-top risk at midsection")
                   \o Say(is_petite(b), "Petite: high rise strongly benefits")>>
        ELSE IF rise = "mid"
        THEN <<clamp1(500), <<"Mid rise: neutral-positive">> >>
        ELSE IF rise = "low"
        THEN LET hm == _has_goal(b, "hide_midsection")
             IN  <<clamp1(-1500 - (IF taller THEN 2500 ELSE 0)
                                - (IF is_petite(b) THEN 1500 ELSE 0)
                                - (IF hm THEN 1500 ELSE 0)),
                   <<"Low rise: shortens leg line">>
                   \o Say(taller, "look_taller goal: strongly fights")
                   \o Say(is_petite(b), "Petite: low rise significantly shortens leg")
                   \o Say(hm, "hide_midsection: low rise exposes gap")>>
        ELSE <<0, <<"Rise", "N/A">> >>

score_leg_shape(g, b) ==
    LET leg == g.leg_shape
        shape == body_shape(b)
        highRise == g.rise \in {"high", "ultra_high"}
        lowRise == g.rise = "low"
    IN  IF leg = "none" THEN <<0, <<"No leg shape data", "N/A">> >>
        ELSE IF leg \in {"skinny", "slim"}
        THEN LET \* total_stretch = elastane_pct * multiplier < 8
                 lowStretch == g.elastane_pct * ELASTANE_MULTIPLIERS(g.construction) < 800
                 bigThigh == lowStretch /\ b.c_thigh_max > 2400
                 midThigh == lowStretch /\ ~bigThigh /\ b.c_thigh_max > 2200
                 thigh_cling_penalty == IF bigThigh THEN -1000
                                        ELSE IF midThigh THEN -500 ELSE 0
                 sh == _has_goal(b, "slim_hips")
                 score == CASE shape = "pear" ->
                                 (IF sh THEN -3500 ELSE -1000)
                                 + (IF highRise THEN 1000 ELSE 0)
                            [] shape = "inverted_triangle" -> -2500
                            [] shape = "rectangle" -> 1500
                            [] shape = "hourglass" -> 1500
                            [] OTHER -> 0
             IN  <<clamp1(score + thigh_cling_penalty),
                   Say(bigThigh, "Low-stretch skinny + large thigh: cling risk")
                   \o Say(midThigh, "Low-stretch " \o leg \o " + moderate thigh: mild cling risk")
                   \o <<leg \o ": follows body contour">>
                   \o Say(shape = "pear" /\ sh, "Pear + slim_hips: emphasizes hip-to-ankle taper")
                   \o Say(shape = "pear" /\ ~sh, "Pear: shows hip curve")
                   \o Say(shape = "pear" /\ highRise, "+ high rise: elongation partially offsets")
                   \o Say(shape = "inverted_triangle", "INVT: narrow bottom emphasizes shoulder width")
                   \o Say(shape = "rectangle", "Rectangle: clean line")
                   \o Say(shape = "hourglass", "Hourglass: follows natural curve")>>
        ELSE IF leg \in {"wide_leg", "palazzo"}
        THEN LET bt == IF is_petite(b) THEN 1
                       ELSE IF shape = "pear" THEN 2
                       ELSE IF shape = "inverted_triangle" THEN 3
                       ELSE IF shape = "apple" THEN 4
                       ELSE 0
                 stretchHigh == highRise /\ g.waistband_stretch_pct >= 80
                 score == CASE bt = 1 -> IF highRise THEN 1500 ELSE -3000
                            [] bt = 2 -> 4000 + (IF highRise THEN 1000
                                                 ELSE IF lowRise THEN -2000 ELSE 0)
                            [] bt = 3 -> 4000 + (IF highRise THEN 500 ELSE 0)
                            [] bt = 4 -> 2500 + (IF stretchHigh THEN 1000
                                                 ELSE IF lowRise THEN -1500 ELSE 0)
                            [] OTHER -> 1500
             IN  <<clamp1(score),
                   <<leg \o ": adds volume at leg">>
                   \o Say(bt = 1 /\ highRise, "Petite + high rise: volume manageable")
                   \o Say(bt = 1 /\ ~highRise, "Petite without high rise: overwhelms frame")
                   \o Say(bt = 2, "Pear: skims over hips and thighs")
                   \o Say(bt = 2 /\ highRise, "+ high rise: defines waist before volume starts")
                   \o Say(bt = 2 /\ ~highRise /\ lowRise, "+ low rise: volume starts too early, no waist anchor")
                   \o Say(bt = 3, "INVT: leg volume balances shoulders")
                   \o Say(bt = 3 /\ highRise, "+ high rise: clean proportion line")
                   \o Say(bt = 4, "Apple: volume below balances midsection")
                   \o Say(bt = 4 /\ stretchHigh, "+ stretch high rise: smooth waist transition")
                   \o Say(bt = 4 /\ ~stretchHigh /\ lowRise, "+ low rise: gap at midsection")>>
        ELSE IF leg = "straight"
        THEN <<clamp1(1500), <<"Straight: clean, balanced line">> >>
        ELSE IF leg \in {"bootcut", "flare"}
        THEN LET taller == _has_goal(b, "look_taller")
             IN  <<clamp1((IF shape = "pear" THEN 3000 ELSE 1500)
                          + (IF taller THEN 1500 ELSE 0)),
                   <<leg \o ": volume at hem">>
                   \o Say(shape = "pear", "Pear: flare balances hip width")
                   \o Say(taller, "look_taller: flare + heel creates long line")>>
        ELSE IF leg = "tapered"
        THEN <<clamp1(IF shape = "pear" THEN -1500 ELSE 1000),
               <<"Tapered: relaxed through thigh, narrow at ankle">>
               \o Say(shape = "pear", "Pear: taper emphasizes hip-ankle contrast")>>
        ELSE IF leg = "jogger"
        THEN <<clamp1(IF is_petite(b) THEN -1500 ELSE 0),
               <<"Jogger: elastic cuff at ankle">>
               \o Say(is_petite(b), "Petite: elastic cuff shortens leg line")>>
        ELSE <<0, <<"Leg shape", "N/A">> >>

score_jacket_scoring(g, b) ==
    LET shape == body_shape(b)
        structure == IF g.shoulder_structure \in {"none", ""} THEN "natural"
                     ELSE g.shoulder_structure
        length == IF g.jacket_length \in {"none", ""} THEN "hip" ELSE g.jacket_length
        closure == g.jacket_closure
        padded == structure \in {"padded", "structured"}
        dropped == structure \in {"dropped", "oversized"}
        s1 == IF padded
              THEN CASE shape = "pear" -> 5000
                     [] shape = "inverted_triangle" -> -4000
                     [] shape = "rectangle" -> 2500
                     [] OTHER -> 1000
              ELSE IF dropped
              THEN IF shape = "inverted_triangle" THEN 2000
                   ELSE IF is_petite(b) THEN -3000 ELSE 500
              ELSE 0
        taller == _has_goal(b, "look_taller")
        cover == _has_goal(b, "hide_midsection") \/ _has_goal(b, "slim_hips")
        long == length \in {"mid_thigh", "knee", "below_knee", "full_length"}
        s2 == IF length = "cropped" THEN 3000 + (IF taller THEN 1500 ELSE 0)
              ELSE IF length = "hip"
              THEN IF shape = "pear" THEN -3000
                   ELSE IF shape = "inverted_triangle" THEN 2000 ELSE 0
              ELSE IF long
              THEN (IF taller THEN -2000 ELSE 0) + (IF cover THEN 3000 ELSE 0)
              ELSE 0
        s3 == IF closure = "open_front" THEN 2000
              ELSE IF closure = "double_breasted"
              THEN IF shape = "apple" THEN -1500
                   ELSE IF shape = "rectangle" THEN 1000 ELSE 0
              ELSE 0
    IN  <<clamp1(s1 + s2 + s3),
          Say(padded /\ shape = "pear", "Structured shoulders balance pear hips")
          \o Say(padded /\ shape = "inverted_triangle", "Padded shoulders widen already-broad shoulders")
          \o Say(padded /\ shape = "rectangle", "Structure creates shape on straight frame")
          \o Say(padded /\ shape \notin {"pear", "inverted_triangle", "rectangle"},
                 "Structured shoulders: mild positive")
          \o Say(dropped /\ shape = "inverted_triangle", "Dropped shoulders soften broad shoulder line")
          \o Say(dropped /\ shape # "inverted_triangle" /\ is_petite(b),
                 "Oversized shoulders overwhelm petite frame")
          \o Say(length = "cropped", "Cropped jacket defines waist")
          \o Say(length = "cropped" /\ taller, "look_taller: short jacket = longer leg line")
          \o Say(length = "hip" /\ shape = "pear", "Hip-length ends at pear's widest point")
          \o Say(length = "hip" /\ shape = "inverted_triangle", "Hip-length adds visual weight below")
          \o Say(long /\ taller, "Long jacket shortens visible leg line")
          \o Say(long /\ cover, "Long jacket provides midsection/hip coverage")
          \o Say(closure = "open_front", "Open front: vertical line elongates torso")
          \o Say(closure = "double_breasted" /\ shape = "apple", "Double-breasted adds midsection bulk")
          \o Say(closure = "double_breasted" /\ shape = "rectangle", "Double-breasted adds dimension")>>

(***************************************************************************)
(* kridha_engine.py: scorer tables                                         *)
(***************************************************************************)
_SCORERS ==
    <<"H-Stripe Thinning", "Dark/Black Slimming", "Rise Elongation",
      "A-Line Balance", "Tent Concealment", "Color Break", "Bodycon Mapping",
      "Matte Zone", "V-Neck Elongation", "Monochrome Column", "Hemline",
      "Sleeve", "Waist Placement", "Color Value", "Fabric Zone",
      "Neckline Compound">>

_TYPE_SCORER_FUNCS == {"Top Hemline", "Pant Rise", "Leg Shape", "Jacket Scoring"}

\* The function each scorer name is bound to, applied to (garment, body).
RunScorer(name, g, b) ==
    CASE name = "H-Stripe Thinning" -> score_horizontal_stripes(g, b)
      [] name = "Dark/Black Slimming" -> score_dark_slimming(g, b)
      [] name = "Rise Elongation" -> score_rise_elongation(g, b)
      [] name = "A-Line Balance" -> score_aline_balance(g, b)
      [] name = "Tent Concealment" -> score_tent_concealment(g, b)
      [] name = "Color Break" -> score_color_break(g, b)
      [] name = "Bodycon Mapping" -> score_bodycon_mapping(g, b)
      [] name = "Matte Zone" -> score_matte_zone(g, b)
      [] name = "V-Neck Elongation" -> score_vneck_elongation(g, b)
      [] name = "Monochrome Column" -> score_monochrome_column(g, b)
      [] name = "Hemline" -> score_hemline(g, b)
      [] name = "Sleeve" -> score_sleeve(g, b)
      [] name = "Waist Placement" -> score_waist_placement(g, b)
      [] name = "Color Value" -> score_color_value(g, b)
      [] name = "Fabric Zone" -> score_fabric_zone(g, b)
      [] name = "Neckline Compound" -> score_neckline_compound(g, b)
      [] name = "Top Hemline" -> score_top_hemline(g, b)
      [] name = "Pant Rise" -> score_pant_rise(g, b)
      [] name = "Leg Shape" -> score_leg_shape(g, b)
      [] name = "Jacket Scoring" -> score_jacket_scoring(g, b)

_BASE_WEIGHTS(name) ==
    CASE name = "H-Stripe Thinning" -> 1000
      [] name = "Dark/Black Slimming" -> 800
      [] name = "Rise Elongation" -> 800
      [] name = "A-Line Balance" -> 1000
      [] name = "Tent Concealment" -> 1200
      [] name = "Color Break" -> 800
      [] name = "Bodycon Mapping" -> 1200
      [] name = "Matte Zone" -> 600
      [] name = "V-Neck Elongation" -> 1000
      [] name = "Monochrome Column" -> 600
      [] name = "Hemline" -> 1800
      [] name = "Sleeve" -> 1500
      [] name = "Waist Placement" -> 1500
      [] name = "Color Value" -> 800
      [] name = "Fabric Zone" -> 1000
      [] name = "Neckline Compound" -> 1200
      [] OTHER -> 1000

\* _GOAL_WEIGHT_BOOSTS[goal].get(name), in tenths; 0 when the goal does not
\* boost the scorer.
_GOAL_WEIGHT_BOOSTS(goal, name) ==
    CASE goal = "look_taller" ->
            (CASE name \in {"Monochrome Column", "Pant Rise"} -> 15
               [] name \in {"Rise Elongation", "V-Neck Elongation", "Hemline"} -> 13
               [] name = "Top Hemline" -> 12
               [] OTHER -> 0)
      [] goal = "highlight_waist" ->
            (CASE name \in {"Color Break", "Waist Placement"} -> 15
               [] name \in {"Bodycon Mapping", "Pant Rise"} -> 13
               [] name = "Jacket Scoring" -> 12
               [] OTHER -> 0)
      [] goal = "hide_midsection" ->
            (CASE name = "Tent Concealment" -> 15
               [] name \in {"Dark/Black Slimming", "Matte Zone", "Top Hemline"} -> 13
               [] name \in {"Fabric Zone", "Jacket Scoring"} -> 12
               [] OTHER -> 0)
      [] goal = "slim_hips" ->
            (CASE name \in {"Dark/Black Slimming", "Leg Shape"} -> 15
               [] name \in {"A-Line Balance", "Matte Zone", "Top Hemline"} -> 13
               [] name = "Hemline" -> 12
               [] OTHER -> 0)
      [] goal = "look_proportional" ->
            (CASE name = "Waist Placement" -> 15
               [] name \in {"Hemline", "Rise Elongation", "Pant Rise"} -> 13
               [] OTHER -> 0)
      [] goal = "minimize_arms" ->
            (CASE name = "Sleeve" -> 15
               [] name = "Matte Zone" -> 13
               [] name = "Jacket Scoring" -> 12
               [] OTHER -> 0)
      [] goal = "slimming" ->
            (CASE name \in {"Dark/Black Slimming", "Matte Zone", "Tent Concealment"} -> 15
               [] name = "H-Stripe Thinning" -> 13
               [] OTHER -> 0)
      [] goal = "concealment" ->
            (CASE name = "Tent Concealment" -> 15
               [] name = "Matte Zone" -> 13
               [] OTHER -> 0)
      [] goal = "emphasis" ->
            (CASE name \in {"Bodycon Mapping", "Color Break", "V-Neck Elongation"} -> 15
               [] OTHER -> 0)
      [] OTHER -> 0

\* A normalisation that lands on the keys the confidence table has.
NormalisedName_tableKeys(name) ==
    CASE name = "Waist Placement" -> "waist_placement_golden_ratio"
      [] name = "Hemline" -> "hemline_zone_collision_petite"
      [] OTHER -> "dark_color_slimming"

\* name.lower().replace(" ", "_").replace("/", "_") for the sixteen names.
NormalisedName(name) ==
    CASE name = "H-Stripe Thinning" -> "h-stripe_thinning"
      [] name = "Dark/Black Slimming" -> "dark_black_slimming"
      [] name = "Rise Elongation" -> "rise_elongation"
      [] name = "A-Line Balance" -> "a-line_balance"
      [] name = "Tent Concealment" -> "tent_concealment"
      [] name = "Color Break" -> "color_break"
      [] name = "Bodycon Mapping" -> "bodycon_mapping"
      [] name = "Matte Zone" -> "matte_zone"
      [] name = "V-Neck Elongation" -> "v-neck_elongation"
      [] name = "Monochrome Column" -> "monochrome_column"
      [] name = "Hemline" -> "hemline"
      [] name = "Sleeve" -> "sleeve"
      [] name = "Waist Placement" -> "waist_placement"
      [] name = "Color Value" -> "color_value"
      [] name = "Fabric Zone" -> "fabric_zone"
      [] name = "Neckline Compound" -> "neckline_compound"

\* rules_data.PRINCIPLE_CONFIDENCE.get(key, 0.70), in hundredths.
PRINCIPLE_CONFIDENCE(key) ==
    CASE key = "v_neck_dividing_threshold" -> 85
      [] key \in {"boat_neck_inverted_triangle", "puff_inverted_triangle"} -> 92
      [] key = "three_quarter_arm_slimming" -> 85
      [] key = "cap_sleeve_danger_zone" -> 80
      [] key = "hemline_zone_collision_petite" -> 82
      [] key = "hemline_sleeve_anatomical" -> 90
      [] key = "dark_color_slimming" -> 70
      [] key = "wrap_waist_apple" -> 72
      [] key = "turtleneck_column" -> 68
      [] key = "waist_placement_golden_ratio" -> 75
      [] key = "empire_tent_thresholds" -> 65
      [] key = "skin_tone_contrast" -> 60
      [] key = "stripe_effect_ashida" -> 55
      [] key = "pattern_scale_effect" -> 40
      [] key \in {"fit_flare_pear_origin", "cowl_bust_volume"} -> 50
      [] key = "contour_smoothness" -> 45
      [] OTHER -> 70

(***************************************************************************)
(* kridha_engine.score_garment, Layers 2 and 3                             *)
(***************************************************************************)
PrincipleResult(name, score, reasoning, weight, applicable, confidence) ==
    [name |-> name, score |-> score, reasoning |-> reasoning,
     weight |-> weight, applicable |-> applicable, confidence |-> confidence]

\* Whether scorer(garment, body) raises.  failing names the functions that
\* raise on this input (a field holding None where a number is read, say):
\* a scorer fails when it is named or when a function it calls is, as
\* score_fabric_zone calls score_matte_zone and score_hemline, score_sleeve
\* and score_waist_placement call their translators.
Raises(name, failing) ==
    \/ name \in failing
    \/ name = "Fabric Zone" /\ "Matte Zone" \in failing
    \/ name = "Hemline" /\ "translate_hemline" \in failing
    \/ name = "Sleeve" /\ "translate_sleeve" \in failing
    \/ name = "Waist Placement" /\ "translate_waistline" \in failing

\* try: score, reasoning = scorer(garment, body)
\* except Exception as e: score, reasoning = 0.0, f"ERROR: {e}"
TryScorer(name, g, b, failing, errmsg) ==
    IF Raises(name, failing) THEN <<0, <<"ERROR:">> \o errmsg>>
    ELSE RunScorer(name, g, b)

\* A faulty reduction that scales every score, positive ones too: the
\* variant of ApplyPenaltyReduction under which C6 fails.
ApplyPenaltyReduction_twoSided(score, penalty_reduction) ==
    MulDiv(score, penalty_reduction, 100)

\* if score < 0 and penalty_reduction < 1.0: score *= penalty_reduction
ApplyPenaltyReduction(score, penalty_reduction) ==
    IF score < 0 /\ penalty_reduction < 100
    THEN MulDiv(score, penalty_reduction, 100)
    ELSE score

\* abs(score) < 0.001 and "n/a" in reasoning.lower()
IsNotApplicable(score, reasoning) == Abs(score) < 10 /\ ContainsNA(reasoning)

\* One pass of the loop over _SCORERS; out is what the try statement leaves
\* in score and reasoning, read only when the scorer is not skipped.
ScoreGeneric(name, out, category, penalty_reduction) ==
    IF name \in get_scorers_to_skip(category)
    THEN PrincipleResult(name, 0, <<"N/A", "for " \o category>>, 0, FALSE, 0)
    ELSE LET score == ApplyPenaltyReduction(out[1], penalty_reduction)
             confidence == PRINCIPLE_CONFIDENCE(NormalisedName(name))
             na == IsNotApplicable(score, out[2])
         IN  PrincipleResult(name, score, out[2],
                             IF na THEN 0 ELSE _BASE_WEIGHTS(name), ~na, confidence)

\* One pass of the loop over get_extra_scorer_names(category).
ScoreExtra(name, out, penalty_reduction) ==
    LET score == ApplyPenaltyReduction(out[1], penalty_reduction)
        na == IsNotApplicable(score, out[2])
    IN  PrincipleResult(name, score, out[2],
                        IF na THEN 0 ELSE TYPE_SCORER_WEIGHTS[name], ~na, 70)

\* One pass of either loop.
ScoreNamed(name, generic, out, category, penalty_reduction) ==
    IF generic THEN ScoreGeneric(name, out, category, penalty_reduction)
    ELSE ScoreExtra(name, out, penalty_reduction)

\* principle_results as Layer 2 leaves it: the generic scorers in the order
\* of _SCORERS, then the type-specific ones; g already carries the category.
ElementScoring(g, b, category, penalty_reduction, failing, errmsg) ==
    LET extras == SelectSeq(get_extra_scorer_names(category),
                            LAMBDA n : n \in _TYPE_SCORER_FUNCS)
        names == _SCORERS \o extras
    IN  [i \in 1..Len(names) |->
            ScoreNamed(names[i], i <= Len(_SCORERS),
                       TryScorer(names[i], g, b, failing, errmsg),
                       category, penalty_reduction)]

\* for goal in body.styling_goals: if name in boosts: weight *= boosts[name]
RECURSIVE BoostWeight(_, _, _)
BoostWeight(weight, goals, name) ==
    IF goals = << >> THEN weight
    ELSE LET boost == _GOAL_WEIGHT_BOOSTS(Head(goals), name)
         IN  BoostWeight(IF boost # 0 THEN MulDiv(weight, boost, 10) ELSE weight,
                         Tail(goals), name)

ApplicableWeightSum(results) ==
    SeqSum([i \in DOMAIN results |->
               IF results[i].applicable THEN results[i].weight ELSE 0])

\* min(weight, 0.35 * sum(applicable weights)), the sum including the weight
\* being capped.
CapWeight(weight, total) == Min(weight, MulDiv(total, 35, 100))

\* The body of the Layer 3 loop for the i-th result, then the rest.
RECURSIVE Calibrate(_, _, _)
Calibrate(results, goals, i) ==
    IF i > Len(results) THEN results
    ELSE IF ~results[i].applicable THEN Calibrate(results, goals, i + 1)
    ELSE LET r == results[i]
             w1 == BoostWeight(r.weight, goals, r.name)
             w2 == IF r.score < -1500 THEN MulDiv(w1, 12, 10) ELSE w1
             boosted == [results EXCEPT ![i].weight = w2]
             w3 == CapWeight(w2, ApplicableWeightSum(boosted))
         IN  Calibrate([results EXCEPT ![i].weight = w3], goals, i + 1)

(***************************************************************************)
(* goal_scorers.py                                                         *)
(***************************************************************************)
\* GOAL_PRINCIPLE_MAP[goal]["positive"] and ["negative"], in listed order.
GOAL_PRINCIPLE_MAP(goal) ==
    CASE goal = "look_taller" ->
           [positive |-> <<"Monochrome Column", "Rise Elongation", "V-Neck Elongation",
                           "Hemline", "Waist Placement", "Pant Rise">>,
            negative |-> <<"Color Break", "H-Stripe Thinning", "Top Hemline">>]
      [] goal = "highlight_waist" ->
           [positive |-> <<"Color Break", "Bodycon Mapping", "Waist Placement",
                           "Pant Rise", "Jacket Scoring">>,
            negative |-> <<"Tent Concealment">>]
      [] goal = "hide_midsection" ->
           [positive |-> <<"Tent Concealment", "Dark/Black Slimming", "Matte Zone",
                           "Fabric Zone", "Top Hemline", "Jacket Scoring">>,
            negative |-> <<"Bodycon Mapping", "Color Break", "Pant Rise">>]
      [] goal = "slim_hips" ->
           [positive |-> <<"Dark/Black Slimming", "A-Line Balance", "Matte Zone",
                           "Hemline", "Leg Shape">>,
            negative |-> <<"H-Stripe Thinning", "Bodycon Mapping", "Top Hemline">>]
      [] goal = "look_proportional" ->
           [positive |-> <<"Waist Placement", "Hemline", "Rise Elongation",
                           "Monochrome Column", "Pant Rise", "Jacket Scoring">>,
            negative |-> <<"Tent Concealment">>]
      [] goal = "minimize_arms" ->
           [positive |-> <<"Sleeve", "Matte Zone", "Jacket Scoring">>,
            negative |-> << >>]
      [] goal = "slimming" ->
           [positive |-> <<"Dark/Black Slimming", "Matte Zone", "H-Stripe Thinning",
                           "Color Value">>,
            negative |-> <<"Tent Concealment", "Bodycon Mapping">>]
      [] goal = "concealment" ->
           [positive |-> <<"Tent Concealment", "Matte Zone", "Dark/Black Slimming">>,
            negative |-> <<"Bodycon Mapping">>]
      [] goal = "emphasis" ->
           [positive |-> <<"Bodycon Mapping", "Color Break", "V-Neck Elongation">>,
            negative |-> <<"Tent Concealment">>]
      [] goal = "balance" ->
           [positive |-> <<"Waist Placement", "A-Line Balance", "Hemline">>,
            negative |-> << >>]
      [] OTHER -> [positive |-> << >>, negative |-> << >>]

\* GOAL_PRINCIPLE_MAP[goal]["weights"].get(name, 1.0), in tenths.
GoalWeights(goal, name) ==
    CASE goal = "look_taller" ->
           (CASE name \in {"Monochrome Column", "Pant Rise"} -> 15
              [] name \in {"Rise Elongation", "Hemline", "Color Break"} -> 13
              [] name \in {"V-Neck Elongation", "Waist Placement", "Top Hemline"} -> 12
              [] OTHER -> 10)
      [] goal = "highlight_waist" ->
           (CASE name \in {"Color Break", "Waist Placement"} -> 15
              [] name \in {"Tent Concealment", "Pant Rise"} -> 13
              [] name \in {"Bodycon Mapping", "Jacket Scoring"} -> 12
              [] OTHER -> 10)
      [] goal = "hide_midsection" ->
           (CASE name \in {"Tent Concealment", "Bodycon Mapping"} -> 15
              [] name \in {"Dark/Black Slimming", "Top Hemline"} -> 13
              [] name \in {"Matte Zone", "Color Break", "Jacket Scoring", "Pant Rise"} -> 12
              [] OTHER -> 10)
      [] goal = "slim_hips" ->
           (CASE name \in {"Dark/Black Slimming", "Leg Shape"} -> 15
              [] name \in {"A-Line Balance", "H-Stripe Thinning", "Bodycon Mapping",
                           "Top Hemline"} -> 13
              [] name \in {"Matte Zone", "Hemline"} -> 12
              [] OTHER -> 10)
      [] goal = "look_proportional" ->
           (CASE name = "Waist Placement" -> 15
              [] name \in {"Hemline", "Pant Rise"} -> 13
              [] name \in {"Rise Elongation", "Tent Concealment"} -> 12
              [] name = "Jacket Scoring" -> 11
              [] OTHER -> 10)
      [] goal = "minimize_arms" ->
           (CASE name = "Sleeve" -> 15
              [] name \in {"Matte Zone", "Jacket Scoring"} -> 12
              [] OTHER -> 10)
      [] goal = "slimming" ->
           (CASE name \in {"Dark/Black Slimming", "Tent Concealment"} -> 15
              [] name = "Matte Zone" -> 13
              [] OTHER -> 10)
      [] goal = "concealment" ->
           (CASE name = "Tent Concealment" -> 15
              [] name = "Matte Zone" -> 13
              [] OTHER -> 10)
      [] goal = "emphasis" ->
           (CASE name = "Bodycon Mapping" -> 15
              [] name \in {"Color Break", "V-Neck Elongation"} -> 13
              [] OTHER -> 10)
      [] OTHER -> 10

Reverse(s) == [i \in 1..Len(s) |-> s[Len(s) + 1 - i]]

\* The order in which a set built from the list names is iterated.  It is
\* fixed by the interpreter's string hash seed: the same for every call in
\* one process, possibly another in the next process.
SetIterationOrder(names, hashOrder) ==
    IF hashOrder = "listed" THEN names ELSE Reverse(names)

\* by_name.get(name): the applicable result of that name, or << >>.
ByName(principles, name) ==
    SelectSeq(principles, LAMBDA p : p.applicable /\ p.name = name)

GoalVerdict(goal, verdict, score, supporting_principles, reasoning) ==
    [goal |-> goal, verdict |-> verdict, score |-> score,
     supporting_principles |-> supporting_principles, reasoning |-> reasoning]

\* A faulty accumulation that adds the negative-list principles instead of
\* subtracting them: the variant of GoalSums under which C11 fails.
GoalSums_negativeAdded(goal, principles, pos, neg) ==
    <<SeqSum([i \in 1..Len(pos) |->
                 ByName(principles, pos[i])[1].score * GoalWeights(goal, pos[i])])
      + SeqSum([i \in 1..Len(neg) |->
                 ByName(principles, neg[i])[1].score * GoalWeights(goal, neg[i])]),
      SeqSum([i \in 1..Len(pos) |-> GoalWeights(goal, pos[i])])
      + SeqSum([i \in 1..Len(neg) |-> GoalWeights(goal, neg[i])])>>

\* <<weighted_sum, total_weight>> as the two loops leave them: pos and neg
\* are the names of the positive and negative lists that by_name holds.
\* weighted_sum is in 1/100000, total_weight in tenths.
GoalSums(goal, principles, pos, neg) ==
    <<SeqSum([i \in 1..Len(pos) |->
                 ByName(principles, pos[i])[1].score * GoalWeights(goal, pos[i])])
      - SeqSum([i \in 1..Len(neg) |->
                 ByName(principles, neg[i])[1].score * GoalWeights(goal, neg[i])]),
      SeqSum([i \in 1..Len(pos) |-> GoalWeights(goal, pos[i])])
      + SeqSum([i \in 1..Len(neg) |-> GoalWeights(goal, neg[i])])>>

\* Every listed principle of either list, whatever the sign of its score.
supporting_twoSided(principles, pos, neg) ==
    LET sc(n) == ByName(principles, n)[1].score
        supPos == SelectSeq(pos, LAMBDA n : sc(n) > 500 \/ sc(n) < -500)
        supNeg == SelectSeq(neg, LAMBDA n : sc(n) > 500 \/ sc(n) < -500)
    IN  [i \in 1..Len(supPos) |-> <<"+", supPos[i], MulDiv(sc(supPos[i]), 1, 100)>>]
        \o [i \in 1..Len(supNeg) |->
               <<"-avoided", supNeg[i], MulDiv(sc(supNeg[i]), 1, 100)>>]

\* The supporting list the two loops build: a positive principle above
\* +0.05, then a negative principle below -0.05.  An entry is
\* <<sign, name, score to 2 dp>>.
supporting(principles, pos, neg) ==
    LET sc(n) == ByName(principles, n)[1].score
        supPos == SelectSeq(pos, LAMBDA n : sc(n) > 500)
        supNeg == SelectSeq(neg, LAMBDA n : sc(n) < -500)
    IN  [i \in 1..Len(supPos) |-> <<"+", supPos[i], MulDiv(sc(supPos[i]), 1, 100)>>]
        \o [i \in 1..Len(supNeg) |->
               <<"-avoided", supNeg[i], MulDiv(sc(supNeg[i]), 1, 100)>>]

\* score in ten-thousandths.
\* final_score = weighted_sum / total_weight is compared with the thresholds
\* exactly, and rounded only for the verdict's score.
_score_single_goal(goal, principles, hashOrder) ==
    LET mapping == GOAL_PRINCIPLE_MAP(goal)
        pos == SelectSeq(SetIterationOrder(mapping.positive, hashOrder),
                         LAMBDA n : ByName(principles, n) # << >>)
        neg == SelectSeq(SetIterationOrder(mapping.negative, hashOrder),
                         LAMBDA n : ByName(principles, n) # << >>)
    IN  With(GoalSums(goal, principles, pos, neg), LAMBDA sums :
        LET weighted_sum == sums[1]
            total_weight == sums[2]
            verdict == IF weighted_sum > 1500 * total_weight THEN "pass"
                       ELSE IF weighted_sum < -1500 * total_weight THEN "fail"
                       ELSE "caution"
            rounded == MulDiv(weighted_sum, 1, 10 * total_weight)
        IN  IF total_weight = 0
            THEN GoalVerdict(goal, "caution", 0, << >>,
                             <<"No applicable principles for this goal">>)
            ELSE GoalVerdict(goal, verdict, rounded,
                             supporting(principles, pos, neg),
                             <<"Weighted score:", rounded, verdict>>))

score_goals(principles, body, hashOrder) ==
    [i \in 1..Len(body.styling_goals) |->
        _score_single_goal(body.styling_goals[i], principles, hashOrder)]

(***************************************************************************)
(* context_modifiers.py                                                    *)
(***************************************************************************)
\* context.get(key, default); a key the dict lacks holds "<absent>".
ContextGet(context, key, default) ==
    IF context[key] # "<absent>" THEN context[key] ELSE default

\* str.lower() on the words a context carries.
LowerWord(s) ==
    CASE s = "India" -> "india"
      [] s = "US" -> "us"
      [] s = "Formal" -> "formal"
      [] s = "Cold" -> "cold"
      [] OTHER -> s

\* _COLOR_SYMBOLISM[culture].get(color, {}) then
\* color_rules.get(event_type, color_rules.get("general", 0.0)), hundredths.
_COLOR_SYMBOLISM(culture, color, event_type) ==
    CASE culture = "india" /\ color = "red" ->
           (CASE event_type = "wedding_bride" -> 95
              [] event_type = "wedding_guest" -> -30
              [] OTHER -> 0)
      [] culture = "india" /\ color = "white" ->
           (CASE event_type = "celebration" -> -90
              [] event_type = "funeral" -> 50
              [] OTHER -> 0)
      [] culture = "india" /\ color = "black" ->
           (CASE event_type = "wedding_ceremony" -> -70
              [] event_type = "sangeet" -> -20
              [] OTHER -> 0)
      [] culture = "india" /\ color = "gold" ->
           (CASE event_type = "wedding" -> 80
              [] OTHER -> 20)
      [] culture = "us" /\ color = "white" ->
           (CASE event_type = "wedding_bride" -> 90
              [] event_type = "wedding_guest" -> -50
              [] OTHER -> 0)
      [] culture = "us" /\ color = "black" ->
           (CASE event_type = "evening" -> 90
              [] event_type = "funeral" -> 50
              [] OTHER -> 0)
      [] OTHER -> 0

\* _OCCASION_COVERAGE[occasion]: min_hem and max_neckline_depth (1/100 inch).
_OCCASION_COVERAGE(occasion) ==
    CASE occasion = "formal" -> [min_hem |-> "knee", max_neckline_depth |-> 400]
      [] occasion = "business" -> [min_hem |-> "above_knee", max_neckline_depth |-> 500]
      [] occasion = "business_casual" ->
           [min_hem |-> "above_knee", max_neckline_depth |-> 600]
      [] occasion = "casual" -> [min_hem |-> "mini", max_neckline_depth |-> 800]
      [] occasion = "date_night" -> [min_hem |-> "above_knee", max_neckline_depth |-> 700]
      [] occasion = "wedding_guest" -> [min_hem |-> "knee", max_neckline_depth |-> 500]
      [] occasion = "interview" -> [min_hem |-> "knee", max_neckline_depth |-> 500]
      [] occasion = "athletic" -> [min_hem |-> "mini", max_neckline_depth |-> 600]
      [] occasion = "brunch" -> [min_hem |-> "above_knee", max_neckline_depth |-> 700]
      [] occasion = "evening" -> [min_hem |-> "above_knee", max_neckline_depth |-> 800]

Occasions ==
    {"formal", "business", "business_casual", "casual", "date_night",
     "wedding_guest", "interview", "athletic", "brunch", "evening"}

_HEM_ORDER ==
    <<"floor", "ankle", "below_calf", "midi", "below_knee", "knee",
      "above_knee", "mini">>

IndexOf(s, x) == CHOOSE i \in DOMAIN s : s[i] = x

_hem_is_above(actual, minimum) ==
    IF (\E i \in DOMAIN _HEM_ORDER : _HEM_ORDER[i] = actual)
       /\ (\E i \in DOMAIN _HEM_ORDER : _HEM_ORDER[i] = minimum)
    THEN IndexOf(_HEM_ORDER, actual) > IndexOf(_HEM_ORDER, minimum)
    ELSE FALSE

\* The adjustments dict, as a set of <<name, delta>> with deltas in hundredths.
apply_context_modifiers(context, principles, body, garment) ==
    LET culture == LowerWord(ContextGet(context, "culture", ""))
        event_type == ContextGet(context, "event_type", "general")
        garment_color == LowerWord(ContextGet(context, "garment_color", ""))
        cultural_score == _COLOR_SYMBOLISM(culture, garment_color, event_type)
        occasion == LowerWord(ContextGet(context, "occasion", ""))
        reqs == _OCCASION_COVERAGE(occasion)
        neckline_depth ==
            IF garment.neckline_depth # -1 /\ garment.neckline_depth # 0
            THEN garment.neckline_depth
            ELSE MulDiv(garment.v_depth_cm, 1000, 254)
        climate == LowerWord(ContextGet(context, "climate", ""))
        age_range == ContextGet(context, "age_range", "")
    IN  (IF culture \in {"india", "us"} /\ garment_color # "" /\ cultural_score # 0
         THEN {<<"cultural_color", cultural_score>>} ELSE {})
        \cup (IF occasion \in Occasions /\ _hem_is_above(garment.hem_position, reqs.min_hem)
              THEN {<<"occasion_hem_violation", -20>>} ELSE {})
        \cup (IF occasion \in Occasions /\ neckline_depth > reqs.max_neckline_depth
              THEN {<<"occasion_neckline_violation", -15>>} ELSE {})
        \cup (IF climate = "hot_humid" /\ garment.gsm_estimated > 250
              THEN {<<"climate_heavy_fabric", -10>>} ELSE {})
        \cup (IF climate = "hot_humid"
                 /\ garment.primary_fiber \in {"polyester", "nylon"}
                 /\ garment.fabric_name \in {"none", ""}
              THEN {<<"climate_non_breathable", -5>>} ELSE {})
        \cup (IF climate = "cold" /\ garment.gsm_estimated < 120
              THEN {<<"climate_light_fabric", -10>>} ELSE {})
        \cup (IF age_range = "50+"
                 /\ \E i \in DOMAIN principles :
                        principles[i].name = "Bodycon Mapping" /\ principles[i].score > 2000
              THEN {<<"age_bodycon_comfort", -5>>} ELSE {})
        \cup (IF age_range = "18-25"
                 /\ \E i \in DOMAIN principles :
                        principles[i].name = "Tent Concealment" /\ principles[i].score < -2000
              THEN {<<"age_oversized_trend", 5>>} ELSE {})

(***************************************************************************)
(* schemas.py: display scale                                               *)
(***************************************************************************)
\* clamp(raw, -1.0, 1.0) * 5.0 + 5.0, in 1/10000 of the 0..10 scale.
score_to_ten(raw) == clamp(raw, -10000, 10000) * 5 + 50000

\* The table with the third segment ending at display 4.5, half a point
\* above where the fourth begins.
_RESCALE_BREAKPOINTS_overlap ==
    << <<0, 35000, 0, 5000>>,
       <<35000, 40000, 5000, 10000>>,
       <<40000, 44000, 10000, 45000>>,
       <<44000, 50000, 40000, 55000>>,
       <<50000, 55000, 55000, 70000>>,
       <<55000, 58000, 70000, 80000>>,
       <<58000, 63000, 80000, 95000>>,
       <<63000, 100000, 95000, 100000>> >>

\* (raw_lo, raw_hi, display_lo, display_hi), in 1/10000.
_RESCALE_BREAKPOINTS ==
    << <<0, 35000, 0, 5000>>,
       <<35000, 40000, 5000, 10000>>,
       <<40000, 44000, 10000, 40000>>,
       <<44000, 50000, 40000, 55000>>,
       <<50000, 55000, 55000, 70000>>,
       <<55000, 58000, 70000, 80000>>,
       <<58000, 63000, 80000, 95000>>,
       <<63000, 100000, 95000, 100000>> >>

\* disp_lo + (raw_ten - raw_lo) / (raw_hi - raw_lo) * (disp_hi - disp_lo)
Interpolate(raw_ten, seg) ==
    LET g == GCD(seg[4] - seg[3], seg[2] - seg[1])
    IN  IF seg[2] = seg[1] THEN seg[3]
        ELSE seg[3] + MulDiv(raw_ten - seg[1], (seg[4] - seg[3]) \div g,
                             (seg[2] - seg[1]) \div g)

rescale_display(raw_ten) ==
    LET hits == {i \in DOMAIN _RESCALE_BREAKPOINTS : raw_ten <= _RESCALE_BREAKPOINTS[i][2]}
    IN  IF hits = {} THEN 100000
        ELSE Interpolate(raw_ten,
                         _RESCALE_BREAKPOINTS[CHOOSE i \in hits : \A j \in hits : i <= j])

(***************************************************************************)
(* kridha_engine.py: helpers of Layer 7                                    *)
(***************************************************************************)
\* zone_mapping, with garment_types.TYPE_SCORER_ZONE_MAPPING merged in.
zone_mapping(name) ==
    CASE name \in {"H-Stripe Thinning", "Dark/Black Slimming", "Monochrome Column",
                   "Color Value"} -> {"torso"}
      [] name \in {"Rise Elongation", "Color Break", "Waist Placement", "Pant Rise"}
           -> {"waist"}
      [] name = "A-Line Balance" -> {"hip"}
      [] name \in {"Tent Concealment", "Matte Zone", "Fabric Zone", "Top Hemline"}
           -> {"torso", "hip"}
      [] name = "Bodycon Mapping" -> {"torso", "hip", "thigh"}
      [] name = "V-Neck Elongation" -> {"bust", "shoulder"}
      [] name = "Hemline" -> {"knee", "calf", "ankle"}
      [] name = "Sleeve" -> {"upper_arm", "shoulder"}
      [] name = "Neckline Compound" -> {"bust"}
      [] name = "Leg Shape" -> {"hip", "thigh"}
      [] name = "Jacket Scoring" -> {"shoulder", "waist", "hip", "torso"}
      [] OTHER -> {}

\* One ZoneScore per zone that an applicable principle maps to: the mean
\* score in thousandths and the flagged principles (score to 2 dp).
_compute_zone_scores(principles) ==
    LET applicable == SelectSeq(principles, LAMBDA p : p.applicable)
        zones == UNION {zone_mapping(applicable[i].name) : i \in DOMAIN applicable}
        inZone(z) == SelectSeq(applicable, LAMBDA p : z \in zone_mapping(p.name))
        flagged(z) == SelectSeq(inZone(z), LAMBDA p : p.score < -2000)
    IN  [z \in zones |->
            [zone |-> z,
             score |-> MulDiv(SeqSum([i \in DOMAIN inZone(z) |-> inZone(z)[i].score]),
                              1, 10 * Len(inZone(z))),
             flags |-> [i \in DOMAIN flagged(z) |->
                           <<flagged(z)[i].name, MulDiv(flagged(z)[i].score, 1, 100)>>]]]

\* sorted(..., key=lambda p: p.score): stable, ascending.
RECURSIVE SortedByScore(_)
SortedByScore(ps) ==
    IF ps = << >> THEN << >>
    ELSE LET m == CHOOSE i \in DOMAIN ps :
                    /\ \A j \in DOMAIN ps : ps[i].score <= ps[j].score
                    /\ \A j \in 1..(i - 1) : ps[j].score > ps[i].score
         IN  <<ps[m]>> \o SortedByScore(SubSeq(ps, 1, m - 1) \o SubSeq(ps, m + 1, Len(ps)))

\* fix_suggestions[name][1], the expected improvement in hundredths; 0 when
\* the principle has no suggestion.
fix_suggestions(name) ==
    CASE name \in {"Tent Concealment", "Hemline", "Top Hemline", "Leg Shape"} -> 20
      [] name \in {"Bodycon Mapping", "Sleeve", "Pant Rise"} -> 25
      [] name \in {"Color Break", "H-Stripe Thinning"} -> 10
      [] name \in {"A-Line Balance", "Rise Elongation", "Jacket Scoring"} -> 15
      [] name = "V-Neck Elongation" -> 12
      [] name = "Dark/Black Slimming" -> 8
      [] OTHER -> 0

\* what_to_change is named by the principle whose suggestion it is.
_suggest_fixes(principles) ==
    LET worst == SortedByScore(SelectSeq(principles,
                                         LAMBDA p : p.applicable /\ p.score < -1500))
        top == SubSeq(worst, 1, Min(3, Len(worst)))
        fixable == SelectSeq(top, LAMBDA p : fix_suggestions(p.name) # 0)
    IN  [i \in DOMAIN fixable |->
            [what_to_change |-> fixable[i].name,
             expected_improvement |-> fix_suggestions(fixable[i].name),
             priority |-> IF fixable[i].score < -3000 THEN 1 ELSE 2]]

(***************************************************************************)
(* garment_types.py: layer interaction                                     *)
(***************************************************************************)
_generate_layer_styling_notes(garment, body) ==
    IF garment.category \in {"jacket", "coat"}
    THEN CASE body_shape(body) = "pear" ->
                <<"pair with wide-leg or straight pants">>
                \o Say(garment.jacket_length = "hip", "consider wearing open")
           [] body_shape(body) = "apple" ->
                <<"pair with a V-neck underneath">>
                \o Say(garment.jacket_closure # "open_front", "wear unbuttoned")
           [] body_shape(body) = "inverted_triangle" ->
                <<"balance with wide-leg or flare pants">>
           [] OTHER -> << >>
    ELSE IF garment.category = "cardigan"
    THEN Say(_has_goal(body, "look_taller"), "wear open with same-color base")
         \o Say(_has_goal(body, "hide_midsection"), "longer cardigan provides coverage")
    ELSE << >>

compute_layer_modifications(garment, body) ==
    LET fit == IF garment.fit_category \notin {"none", ""}
               THEN garment.fit_category ELSE garment.silhouette_label
    IN  [layer_modifications |->
            Say(garment.shoulder_structure \in {"padded", "structured"},
                "cling_neutralization")
            \o Say(garment.jacket_closure = "open_front", "vertical_line_creation")
            \o Say(fit \in {"relaxed", "loose", "oversized"}, "volume_addition")
            \o Say(garment.jacket_length \notin {"none", ""}, "proportion_break_override"),
         styling_notes |-> _generate_layer_styling_notes(garment, body)]

(***************************************************************************)
(* kridha_engine.score_garment, Layer 7                                    *)
(***************************************************************************)
ScoreResult(overall_score, composite_raw, confidence, principle_scores, goal_verdicts, zone_scores, exceptions, fixes, body_adjusted, reasoning_chain, layer_modifications, styling_notes) ==
    [overall_score |-> overall_score, composite_raw |-> composite_raw,
     confidence |-> confidence, principle_scores |-> principle_scores,
     goal_verdicts |-> goal_verdicts, zone_scores |-> zone_scores,
     exceptions |-> exceptions, fixes |-> fixes, body_adjusted |-> body_adjusted,
     reasoning_chain |-> reasoning_chain,
     layer_modifications |-> layer_modifications, styling_notes |-> styling_notes]

\* Every result taken as active, applicable or not.
Active_all(principle_results) == principle_results

\* active = [r for r in principle_results if r.applicable]
Active(principle_results) == SelectSeq(principle_results, LAMBDA r : r.applicable)

\* tw == 0 -> 0.0, else sum(score * weight * confidence) / sum(weight * confidence).
\* The confidences are divided by their common factor first, which leaves the
\* quotient as it is.
WeightedComposite(active) ==
    LET tw == SeqSum([i \in DOMAIN active |-> active[i].weight])
        cg == SeqGCD([i \in DOMAIN active |-> active[i].confidence])
        c(i) == active[i].confidence \div cg
        den == SeqSum([i \in DOMAIN active |-> active[i].weight * c(i)])
    IN  IF tw = 0 THEN 0
        ELSE MulDiv(SeqSum([i \in DOMAIN active |->
                               active[i].score * active[i].weight * c(i)]), 1, den)

\* The division raises ZeroDivisionError when tw != 0 and the divisor is 0.
CompositeRaises(active) ==
    /\ SeqSum([i \in DOMAIN active |-> active[i].weight]) # 0
    /\ SeqSum([i \in DOMAIN active |-> active[i].weight * active[i].confidence]) = 0

\* worst_sil = min(sil_scores) if sil_scores else 0.0
WorstSil(active) ==
    LET sil_scores == SelectSeq(active, LAMBDA r : r.name \in {"Tent Concealment",
                                                               "Bodycon Mapping"})
    IN  IF sil_scores = << >> THEN 0
        ELSE SeqMin([i \in DOMAIN sil_scores |-> sil_scores[i].score])

has_slimming(body) ==
    _has_goal(body, "slimming") \/ _has_goal(body, "slim_hips")
    \/ _has_goal(body, "hide_midsection")

\* A faulty dominance test with the threshold at -0.50: the variant of
\* SilhouetteDominates under which C5 fails.
SilhouetteDominates_late(active, body) ==
    WorstSil(active) < -5000 /\ has_slimming(body) /\ WeightedComposite(active) > 0

\* if worst_sil < -0.20 and has_slimming and composite > 0
SilhouetteDominates(active, body) ==
    WorstSil(active) < -2000 /\ has_slimming(body) /\ WeightedComposite(active) > 0

\* The composite before clamp(): the weighted mean, or worst_sil * 0.3.
Composite(active, body) ==
    IF SilhouetteDominates(active, body) THEN MulDiv(WorstSil(active), 3, 10)
    ELSE WeightedComposite(active)

\* sum(r.confidence for r in active) / len(active) if active else 0.50
AvgConfidence(active) ==
    IF active = << >> THEN 50
    ELSE MulDiv(SeqSum([i \in DOMAIN active |-> active[i].confidence]), 1, Len(active))

\* A faulty test that never short-circuits: the variant of NoneActive under
\* which C10 fails.
NoneActive_never(active) == FALSE

\* if not active: return the neutral default
NoneActive(active) == active = << >>

\* Everything from `active = ...` to the return.  overall_score is in tenths,
\* composite_raw in 1/10000, confidence in hundredths; layer_modifications is
\* << >> for None and <<dict>> otherwise.
Layer7(garment, body, category, principle_results, goal_verdicts, exceptions, body_adjusted, reasoning_chain) ==
    LET active == Active(principle_results)
        composite == clamp1(Composite(active, body))
        overall == rescale_display(score_to_ten(composite))
        avg_confidence == AvgConfidence(active)
        layer_info == compute_layer_modifications(garment, body)
        chain == reasoning_chain
                 \o (IF SilhouetteDominates(active, body)
                     THEN << <<"L7 Silhouette dominance", MulDiv(WorstSil(active), 1, 100)>> >>
                     ELSE << >>)
                 \o << <<"L7 Composite", MulDiv(composite, 1, 10),
                         MulDiv(overall, 1, 1000), avg_confidence>> >>
                 \o (IF is_layer_garment(category)
                     THEN << <<"Layer", Len(layer_info.layer_modifications)>> >>
                     ELSE << >>)
    IN  IF NoneActive(active)
        THEN ScoreResult(50, 0, 50, principle_results, goal_verdicts, << >>,
                         exceptions, << >>, body_adjusted, reasoning_chain,
                         << >>, << >>)
        ELSE ScoreResult(MulDiv(overall, 1, 1000), composite, avg_confidence,
                         principle_results, goal_verdicts,
                         _compute_zone_scores(principle_results), exceptions,
                         _suggest_fixes(principle_results), body_adjusted, chain,
                         IF is_layer_garment(category) THEN <<layer_info>> ELSE << >>,
                         IF is_layer_garment(category) THEN layer_info.styling_notes
                         ELSE << >>)

(***************************************************************************)
(* schemas.py: the profiles with their default field values                *)
(***************************************************************************)
GarmentProfile ==
    [belt_width_cm |-> 0, category |-> "dress", color_lightness |-> 50,
     construction |-> "woven", covers_waist |-> TRUE, drape |-> 50,
     elastane_pct |-> 0, expansion_rate |-> 5, fabric_name |-> "none",
     fit_category |-> "none", garment_length_inches |-> -1,
     gsm_estimated |-> 150, has_contrasting_belt |-> FALSE,
     has_horizontal_stripes |-> FALSE, has_lining |-> FALSE,
     has_tonal_belt |-> FALSE, has_vertical_stripes |-> FALSE,
     has_waist_definition |-> FALSE, hem_position |-> "knee",
     is_monochrome_outfit |-> FALSE, is_structured |-> FALSE,
     jacket_closure |-> "none", jacket_length |-> "none",
     leg_shape |-> "none", neckline |-> "crew", neckline_depth |-> -1,
     primary_fiber |-> "polyester", rise |-> "none", rise_cm |-> -1,
     shoulder_structure |-> "none", silhouette |-> "semi_fitted",
     silhouette_label |-> "fitted", skirt_construction |-> "none",
     sleeve_ease_inches |-> 100, sleeve_length_inches |-> -1,
     sleeve_type |-> "set_in", stripe_width_cm |-> 0, surface |-> "matte",
     surface_friction |-> 50, title |-> TitleNone,
     top_hem_behavior |-> "none", top_hem_length |-> "none",
     v_depth_cm |-> 0, waist_position |-> "natural",
     waistband_stretch_pct |-> 50, waistband_width_cm |-> 30,
     zone |-> "torso"]

BodyProfile ==
    [arm_length |-> 2300, belly_projection |-> 100, belly_zone |-> 0,
     bust |-> 3600, c_calf_max |-> 1450, c_calf_min |-> 900,
     c_elbow |-> 1000, c_forearm_max |-> 950, c_forearm_min |-> 850,
     c_forearm_min_position |-> 1700, c_thigh_max |-> 2200,
     c_upper_arm_max |-> 1200, c_upper_arm_max_position |-> 300,
     c_wrist |-> 650, goal_bust |-> "none", goal_hip |-> "none",
     goal_legs |-> "none", h_ankle |-> 400, h_calf_max |-> 1400,
     h_calf_min |-> 1000, h_knee |-> 1800, height |-> 6600, hip |-> 3800,
     hip_zone |-> 0, is_athletic |-> FALSE, leg_length_visual |-> 4100,
     shoulder_width |-> 1550, skin_darkness |-> 50, skin_tone_L |-> 50,
     skin_undertone |-> "neutral", styling_goals |-> <<>>,
     torso_length |-> 1500, underbust |-> 3200, waist |-> 3000]

(***************************************************************************)
(* The state of one process: a score_garment call in progress, and the     *)
(* rule-registry singleton with the threads that use it.                   *)
(***************************************************************************)
VARIABLES
    pc,                  \* the layer score_garment is about to run, "done"
                         \* once it has returned, "raised_L5" or "raised_L7"
                         \* once an exception has left it
    garment,             \* the GarmentProfile object passed in
    garment0,            \* its fields when the caller built it
    body,                \* the BodyProfile object passed in
    body0,               \* its fields when the caller built it
    context,             \* the context dict (no key present: None or {})
    failing,             \* the functions that raise on this input
    errmsg,              \* str(e) of the exception they raise
    hashOrder,           \* the process's set iteration order
    calls,               \* score_garment calls begun on this garment
    resolved, exceptions, penalty_reduction, category, principle_results,
    element_results,     \* principle_results as Layer 2 left them
    goal_verdicts, body_adjusted, context_adjustments, reasoning_chain,
    result,              \* the ScoreResult returned, "none" before
    first,               \* the first call's result, with its context, hash
                         \* order and context adjustments
    _registry, _mongo_uri, _mongo_db,
    thread,              \* per thread: pc, local registry, value returned
    loads,               \* registries loaded since _registry was last set to None
    fn, arg, out         \* the last function called on its own, its
                         \* arguments and what it returned

callVars == <<pc, garment, garment0, body, body0, context, failing, errmsg,
              hashOrder, calls, resolved, exceptions, penalty_reduction,
              category, principle_results, element_results, goal_verdicts,
              body_adjusted, context_adjustments, reasoning_chain, result, first>>

regVars == <<_registry, _mongo_uri, _mongo_db, thread, loads>>

fnVars == <<fn, arg, out>>

vars == <<callVars, regVars, fnVars>>

\* score_garment calls made on one garment object.
MaxCalls == 2

\* Operations each registry thread performs.
MaxOps == 2

Threads == {1, 2}

HashOrders == {"listed", "reversed"}

\* A context dict as a record over the keys apply_context_modifiers reads,
\* Absent for a key the dict does not have.
Absent == "<absent>"

ContextKeys == {"culture", "event_type", "garment_color", "occasion", "climate", "age_range"}

NoContext == [k \in ContextKeys |-> Absent]

\* A guest in red at an Indian wedding.
ContextWedding ==
    [NoContext EXCEPT !["culture"] = "India", !["event_type"] = "wedding_guest",
                      !["garment_color"] = "red"]

\* A formal occasion in a cold climate, for a wearer of 18 to 25.
ContextFormal ==
    [NoContext EXCEPT !["occasion"] = "Formal", !["climate"] = "Cold",
                      !["age_range"] = "18-25"]

\* `if context:` - the dict is neither None nor empty.
ContextGiven(ctx) == \E k \in ContextKeys : ctx[k] # Absent

\* Body measurements, one per body shape the engine tells apart.
BodyShapes ==
    \* the defaults: an inverted triangle
    { BodyProfile
    \* hourglass
    , [BodyProfile EXCEPT !.bust = 3800, !.waist = 2800, !.hip = 3800,
       !.shoulder_width = 1300]
    \* pear
    , [BodyProfile EXCEPT !.bust = 3400, !.waist = 2800, !.hip = 4000,
       !.shoulder_width = 1300]
    \* apple
    , [BodyProfile EXCEPT !.bust = 3800, !.waist = 3600, !.hip = 3900]
    \* rectangle
    , [BodyProfile EXCEPT !.bust = 3500, !.waist = 2900, !.hip = 3600,
       !.shoulder_width = 1400]
    \* petite hourglass
    , [BodyProfile EXCEPT !.height = 6100, !.bust = 3600, !.waist = 2600,
       !.hip = 3600, !.shoulder_width = 1300]
    \* plus size with a belly concern and full upper arms
    , [BodyProfile EXCEPT !.bust = 4400, !.waist = 3800, !.hip = 4600,
       !.belly_zone = 60, !.c_upper_arm_max = 1400]
    \* rectangle with a hip concern
    , [BodyProfile EXCEPT !.bust = 3500, !.waist = 2900, !.hip = 3600,
       !.shoulder_width = 1400, !.hip_zone = 60]
    }

GoalLists ==
    {<<>>, <<"slimming">>, <<"hide_midsection">>, <<"look_taller", "slim_hips">>,
     <<"highlight_waist">>, <<"look_proportional">>}

Bodies == {[b EXCEPT !.styling_goals = gl] : b \in BodyShapes, gl \in GoalLists}

\* Garments, one per silhouette, fabric and garment type scored.
Garments ==
    \* the defaults: a knee-length polyester dress
    { GarmentProfile
    \* dark tent dress
    , [GarmentProfile EXCEPT !.expansion_rate = 25, !.color_lightness = 10]
    \* the same, structured
    , [GarmentProfile EXCEPT !.expansion_rate = 25, !.color_lightness = 10,
       !.is_structured = TRUE]
    \* dark tent dress, ankle length, three-quarter sleeves
    , [GarmentProfile EXCEPT !.expansion_rate = 25, !.color_lightness = 10,
       !.hem_position = "ankle", !.sleeve_type = "three_quarter"]
    \* the same, lined
    , [GarmentProfile EXCEPT !.expansion_rate = 25, !.color_lightness = 10,
       !.hem_position = "ankle", !.sleeve_type = "three_quarter",
       !.has_lining = TRUE]
    \* bodycon knit
    , [GarmentProfile EXCEPT !.expansion_rate = 1, !.elastane_pct = 50,
       !.construction = "knit", !.sleeve_type = "three_quarter"]
    \* the same, lined
    , [GarmentProfile EXCEPT !.expansion_rate = 1, !.elastane_pct = 50,
       !.construction = "knit", !.sleeve_type = "three_quarter",
       !.has_lining = TRUE]
    \* jeans by title
    , [GarmentProfile EXCEPT !.title = TitleJeans, !.rise = "high",
       !.leg_shape = "wide_leg", !.rise_cm = 280, !.zone = "lower_body"]
    \* pants by category
    , [GarmentProfile EXCEPT !.category = "bottom_pants", !.rise = "mid",
       !.leg_shape = "straight", !.zone = "lower_body"]
    \* pants by category, no rise or leg data
    , [GarmentProfile EXCEPT !.category = "bottom_pants"]
    \* pants by category under a dress title
    , [GarmentProfile EXCEPT !.category = "bottom_pants", !.title = TitleWrapDress,
       !.rise = "high", !.leg_shape = "skinny"]
    \* structured blazer by title
    , [GarmentProfile EXCEPT !.title = TitleBlazer,
       !.shoulder_structure = "structured", !.jacket_closure = "open_front",
       !.jacket_length = "hip", !.is_structured = TRUE]
    \* V-neck top
    , [GarmentProfile EXCEPT !.category = "top", !.top_hem_length = "at_hip",
       !.top_hem_behavior = "tucked", !.neckline = "v_neck", !.v_depth_cm = 100]
    \* striped, belted, monochrome mini dress
    , [GarmentProfile EXCEPT !.has_horizontal_stripes = TRUE,
       !.stripe_width_cm = 20, !.has_contrasting_belt = TRUE, !.belt_width_cm = 40,
       !.neckline = "v_neck", !.v_depth_cm = 120, !.hem_position = "mini",
       !.is_monochrome_outfit = TRUE, !.sleeve_type = "cap"]
    \* heavy shiny mini dress
    , [GarmentProfile EXCEPT !.surface = "high_shine", !.gsm_estimated = 300,
       !.hem_position = "mini", !.sleeve_type = "flutter",
       !.has_waist_definition = TRUE, !.waist_position = "empire"]
    \* dark, shiny, stiff and slippery A-line wrap dress, lined
    , [GarmentProfile EXCEPT !.color_lightness = 10, !.surface = "high_shine",
       !.silhouette = "a_line", !.drape = 70, !.neckline = "wrap",
       !.surface_friction = 20, !.has_lining = TRUE]
    \* skirt by construction, title without a keyword
    , [GarmentProfile EXCEPT !.title = TitlePlain, !.skirt_construction = "a_line"]
    \* set whose title names leggings and a sweatshirt
    , [GarmentProfile EXCEPT !.title = TitleSet]
    \* untitled listing with pants and jacket attributes
    , [GarmentProfile EXCEPT !.title = TitlePlain, !.rise = "mid",
       !.leg_shape = "straight", !.jacket_closure = "open_front"]
    \* activewear by category
    , [GarmentProfile EXCEPT !.category = "activewear"]
    \* close-fitting pants by category, empire waist, no rise or leg data
    , [GarmentProfile EXCEPT !.category = "bottom_pants", !.expansion_rate = 1,
       !.waist_position = "empire"]
    \* A-line wrap dress with every gate input on its threshold
    , [GarmentProfile EXCEPT !.color_lightness = 25, !.surface = "moderate_sheen",
       !.silhouette = "a_line", !.drape = 60, !.neckline = "wrap",
       !.surface_friction = 30]
    }

\* Every principle scorer there is.
AllScorers == {_SCORERS[i] : i \in DOMAIN _SCORERS} \cup _TYPE_SCORER_FUNCS

\* What fails in a call, and the exception's message: nothing; one scorer
\* (a stripe width of None); a scorer and the scorer that calls it; a
\* translator that a scorer and Layer 5 both call (a knee height of None);
\* every scorer, with a message that reads "N/A" (a body object whose
\* attributes raise).
Faults ==
    { [failing |-> {}, errmsg |-> << >>],
      [failing |-> {"H-Stripe Thinning"}, errmsg |-> <<"'>' not supported">>],
      [failing |-> {"Matte Zone"}, errmsg |-> <<"unsupported operand">>],
      [failing |-> {"Leg Shape"}, errmsg |-> <<"N/A">>],
      [failing |-> {"translate_hemline"}, errmsg |-> <<"unsupported operand">>],
      [failing |-> AllScorers, errmsg |-> <<"unsupported operand">>],
      [failing |-> AllScorers, errmsg |-> <<"N/A">>] }

NoFault == [failing |-> {}, errmsg |-> << >>]

\* The inputs a run starts from: every body with every garment on a plain
\* call; a few of them under each context and hash order; a few under each
\* fault.
Scenarios ==
    {[garment |-> g, body |-> b, context |-> NoContext, fault |-> NoFault,
      hashOrder |-> "listed"] : g \in Garments, b \in Bodies}
    \cup
    {[garment |-> g, body |-> b, context |-> c, fault |-> NoFault, hashOrder |-> h] :
        g \in {x \in Garments : x.expansion_rate = 25 \/ x.hem_position = "mini"},
        b \in {x \in Bodies : x.waist = 3000 /\ Len(x.styling_goals) <= 1},
        c \in {ContextWedding, ContextFormal}, h \in HashOrders}
    \cup
    {[garment |-> g, body |-> b, context |-> NoContext, fault |-> f,
      hashOrder |-> "listed"] :
        g \in {x \in Garments : x.expansion_rate = 5 /\ ~x.has_horizontal_stripes},
        b \in {x \in Bodies : x.waist = 3000 /\ Len(x.styling_goals) = 2},
        f \in Faults}

(***************************************************************************)
(* kridha_engine.score_garment as a run through its layers                 *)
(***************************************************************************)
CallInit(s) ==
    /\ pc = "L1"
    /\ garment = s.garment /\ garment0 = s.garment
    /\ body = s.body /\ body0 = s.body
    /\ context = s.context
    /\ failing = s.fault.failing /\ errmsg = s.fault.errmsg
    /\ hashOrder = s.hashOrder
    /\ calls = 1
    /\ resolved = << >> /\ exceptions = << >> /\ penalty_reduction = 100
    /\ category = "" /\ principle_results = << >> /\ element_results = << >>
    /\ goal_verdicts = << >> /\ body_adjusted = << >>
    /\ context_adjustments = {} /\ reasoning_chain = << >>
    /\ result = << >> /\ first = << >>

RegistryInit ==
    /\ _registry = "None" /\ _mongo_uri = "None" /\ _mongo_db = "None"
    /\ loads = 0
    /\ thread = [t \in Threads |->
                    [pc |-> "idle", local |-> "None", returned |-> << >>, ops |-> 0]]

\* No function has been called on its own yet.
FnIdle == fn = "none" /\ arg = << >> /\ out = << >>

Init == RegistryInit /\ FnIdle /\ \E s \in Scenarios : CallInit(s)

intermediateVars == <<resolved, exceptions, penalty_reduction, category,
                      principle_results, element_results, goal_verdicts,
                      body_adjusted, context_adjustments>>

inputVars == <<garment0, body, body0, context, failing, errmsg, hashOrder, calls>>

\* Layer 1: Fabric Gate.
Layer1 ==
    /\ pc = "L1"
    /\ resolved' = resolve_fabric_properties(garment)
    /\ exceptions' = run_fabric_gates(garment, body, resolved')
    /\ penalty_reduction' = get_structured_penalty_reduction(exceptions')
    /\ reasoning_chain' =
          << <<"L1 Fabric", resolved'.total_stretch_pct,
               MulDiv(resolved'.effective_gsm, 1, 10), resolved'.sheen_score,
               Len(exceptions')>> >>
    /\ pc' = "L2"
    /\ UNCHANGED <<garment, inputVars, category, principle_results, element_results,
                   goal_verdicts, body_adjusted, context_adjustments, result, first,
                   regVars, fnVars>>

\* Layer 2: classification, written into the garment, then Element Scoring.
Layer2 ==
    /\ pc = "L2"
    /\ category' = classify_garment(garment)
    /\ garment' = [garment EXCEPT !.category = category']
    /\ principle_results' =
          ElementScoring(garment', body, category', penalty_reduction, failing, errmsg)
    /\ element_results' = principle_results'
    /\ reasoning_chain' =
          reasoning_chain
          \o << <<"Classification", category'>>,
                <<"L2 Element", Len(Active(principle_results')), Len(principle_results')>> >>
    /\ pc' = "L3"
    /\ UNCHANGED <<inputVars, resolved, exceptions, penalty_reduction, goal_verdicts,
                   body_adjusted, context_adjustments, result, first, regVars, fnVars>>

\* Layer 3: Perceptual Calibration.
Layer3 ==
    /\ pc = "L3"
    /\ principle_results' = Calibrate(principle_results, body.styling_goals, 1)
    /\ reasoning_chain' = Append(reasoning_chain, <<"L3 Calibration">>)
    /\ pc' = "L4"
    /\ UNCHANGED <<garment, inputVars, resolved, exceptions, penalty_reduction,
                   category, element_results, goal_verdicts, body_adjusted,
                   context_adjustments, result, first, regVars, fnVars>>

\* Layer 4: Goal Scoring.
Layer4 ==
    /\ pc = "L4"
    /\ goal_verdicts' = score_goals(principle_results, body, hashOrder)
    /\ reasoning_chain' =
          Append(reasoning_chain,
                 <<"L4 Goals",
                   Len(SelectSeq(goal_verdicts', LAMBDA v : v.verdict = "pass")),
                   Len(SelectSeq(goal_verdicts', LAMBDA v : v.verdict = "fail"))>>)
    /\ pc' = "L5"
    /\ UNCHANGED <<garment, inputVars, resolved, exceptions, penalty_reduction,
                   category, principle_results, element_results, body_adjusted,
                   context_adjustments, result, first, regVars, fnVars>>

\* Whether translate_garment_to_body raises: it calls the translators of the
\* garment's category outside any try.
TranslateRaises(g, fails) ==
    \/ g.category \in _HEM_CATEGORIES /\ "translate_hemline" \in fails
    \/ g.category \in _SLEEVE_CATEGORIES /\ "translate_sleeve" \in fails
    \/ g.category \in _WAIST_CATEGORIES /\ "translate_waistline" \in fails

\* Layer 5: Body-Type Parameterization.  An exception here leaves
\* score_garment without a result.
Layer5 ==
    /\ pc = "L5"
    /\ IF TranslateRaises(garment, failing)
       THEN /\ pc' = "raised_L5"
            /\ UNCHANGED <<body_adjusted, reasoning_chain>>
       ELSE /\ body_adjusted' = translate_garment_to_body(garment, body)
            /\ reasoning_chain' =
                  Append(reasoning_chain,
                         <<"L5 BodyAdj", body_adjusted'.hem_from_floor,
                           body_adjusted'.arm_width_delta,
                           body_adjusted'.visual_leg_ratio>>)
            /\ pc' = "L6"
    /\ UNCHANGED <<garment, inputVars, resolved, exceptions, penalty_reduction,
                   category, principle_results, element_results, goal_verdicts,
                   context_adjustments, result, first, regVars, fnVars>>

\* Layer 6: Context Modifiers.  The adjustments are computed and counted.
Layer6 ==
    /\ pc = "L6"
    /\ context_adjustments' =
          IF ContextGiven(context)
          THEN apply_context_modifiers(context, principle_results, body, garment)
          ELSE {}
    /\ reasoning_chain' =
          Append(reasoning_chain,
                 IF ContextGiven(context)
                 THEN <<"L6 Context", Cardinality(context_adjustments')>>
                 ELSE <<"L6 Context: none">>)
    /\ pc' = "L7"
    /\ UNCHANGED <<garment, inputVars, resolved, exceptions, penalty_reduction,
                   category, principle_results, element_results, goal_verdicts,
                   body_adjusted, result, first, regVars, fnVars>>

\* Layer 7: Composite, and the return.
Layer7Step ==
    /\ pc = "L7"
    /\ IF CompositeRaises(Active(principle_results))
       THEN /\ pc' = "raised_L7"
            /\ UNCHANGED <<result, first>>
       ELSE /\ result' = <<Layer7(garment, body, category, principle_results,
                                  goal_verdicts, exceptions, body_adjusted,
                                  reasoning_chain)>>
            /\ first' = IF first = << >>
                        THEN <<[result |-> result'[1], context |-> context,
                                hashOrder |-> hashOrder,
                                adjustments |-> context_adjustments]>>
                        ELSE first
            /\ pc' = "done"
    /\ UNCHANGED <<garment, inputVars, intermediateVars, reasoning_chain, regVars, fnVars>>

\* The caller scores the same garment object again, in the same process,
\* with the same context or with another.
CallAgain(ctx) ==
    /\ pc = "done"
    /\ calls < MaxCalls
    /\ calls' = calls + 1
    /\ context' = ctx
    /\ pc' = "L1"
    /\ resolved' = << >> /\ exceptions' = << >> /\ penalty_reduction' = 100
    /\ category' = "" /\ principle_results' = << >> /\ element_results' = << >>
    /\ goal_verdicts' = << >> /\ body_adjusted' = << >>
    /\ context_adjustments' = {} /\ reasoning_chain' = << >>
    /\ result' = << >>
    /\ UNCHANGED <<garment, garment0, body, body0, failing, errmsg, hashOrder,
                   first, regVars, fnVars>>

\* The process ends; a new one, with its own string hash seed, builds the
\* same garment, body and context again and scores them.
Restart(h) ==
    /\ pc = "done"
    /\ calls < MaxCalls
    /\ calls' = calls + 1
    /\ hashOrder' = h
    /\ garment' = garment0
    /\ pc' = "L1"
    /\ resolved' = << >> /\ exceptions' = << >> /\ penalty_reduction' = 100
    /\ category' = "" /\ principle_results' = << >> /\ element_results' = << >>
    /\ goal_verdicts' = << >> /\ body_adjusted' = << >>
    /\ context_adjustments' = {} /\ reasoning_chain' = << >>
    /\ result' = << >>
    /\ UNCHANGED <<garment0, body, body0, context, failing, errmsg, first, regVars, fnVars>>

Next ==
    \/ Layer1 \/ Layer2 \/ Layer3 \/ Layer4 \/ Layer5 \/ Layer6 \/ Layer7Step
    \/ \E ctx \in {context, NoContext} : CallAgain(ctx)
    \/ \E h \in HashOrders : Restart(h)

Spec == Init /\ [][Next]_vars

(***************************************************************************)
(* rules_data.py: the registry singleton.  Each thread runs one function   *)
(* at a time; a step is one read or write of a module global.  A registry  *)
(* is "None", or names where a completed load took its rules from.         *)
(***************************************************************************)
\* GoldenRegistry().load_from_mongodb(uri, db), which falls back to load()
\* when MongoDB fails, or GoldenRegistry().load(): the object is returned
\* once loading is over.
LoadedRegistries(uri) == IF uri # "None" THEN {"mongodb", "json"} ELSE {"json"}

SetThread(t, pcNew, localNew, returnedNew, opsNew) ==
    thread' = [thread EXCEPT ![t] = [pc |-> pcNew, local |-> localNew,
                                     returned |-> returnedNew, ops |-> opsNew]]

\* A thread calls get_registry().
CallGetRegistry(t) ==
    /\ thread[t].pc = "idle" /\ thread[t].ops < MaxOps
    /\ SetThread(t, "get_check", "None", << >>, thread[t].ops + 1)
    /\ UNCHANGED <<_registry, _mongo_uri, _mongo_db, loads, callVars, fnVars>>

\* A thread calls reload_registry().
CallReloadRegistry(t) ==
    /\ thread[t].pc = "idle" /\ thread[t].ops < MaxOps
    /\ SetThread(t, "reload_clear", "None", << >>, thread[t].ops + 1)
    /\ UNCHANGED <<_registry, _mongo_uri, _mongo_db, loads, callVars, fnVars>>

\* A thread calls configure_mongodb(uri, db).
CallConfigureMongodb(t) ==
    /\ thread[t].pc = "idle" /\ thread[t].ops < MaxOps
    /\ SetThread(t, "configure_uri", "None", << >>, thread[t].ops + 1)
    /\ UNCHANGED <<_registry, _mongo_uri, _mongo_db, loads, callVars, fnVars>>

\* reload_registry: _registry = None, then get_registry().
ReloadClear(t) ==
    /\ thread[t].pc = "reload_clear"
    /\ _registry' = "None"
    /\ SetThread(t, "get_check", "None", << >>, thread[t].ops)
    /\ loads' = 0
    /\ UNCHANGED <<_mongo_uri, _mongo_db, callVars, fnVars>>

\* get_registry: if _registry is None
GetCheck(t) ==
    /\ thread[t].pc = "get_check"
    /\ SetThread(t, IF _registry = "None" THEN "get_load" ELSE "get_return",
                 "None", << >>, thread[t].ops)
    /\ UNCHANGED <<_registry, _mongo_uri, _mongo_db, loads, callVars, fnVars>>

\* get_registry: if _mongo_uri: ... load_from_mongodb(...) else: ... load()
GetLoad(t) ==
    /\ thread[t].pc = "get_load"
    /\ \E r \in LoadedRegistries(_mongo_uri) :
          SetThread(t, "get_assign", r, << >>, thread[t].ops)
    /\ loads' = loads + 1
    /\ UNCHANGED <<_registry, _mongo_uri, _mongo_db, callVars, fnVars>>

\* get_registry: _registry = <the loaded object>
GetAssign(t) ==
    /\ thread[t].pc = "get_assign"
    /\ _registry' = thread[t].local
    /\ SetThread(t, "get_return", "None", << >>, thread[t].ops)
    /\ UNCHANGED <<_mongo_uri, _mongo_db, loads, callVars, fnVars>>

\* get_registry: return _registry - the global is read again.
GetReturn(t) ==
    /\ thread[t].pc = "get_return"
    /\ SetThread(t, "idle", "None", <<_registry>>, thread[t].ops)
    /\ UNCHANGED <<_registry, _mongo_uri, _mongo_db, loads, callVars, fnVars>>

\* configure_mongodb: _mongo_uri = mongo_uri
ConfigureUri(t) ==
    /\ thread[t].pc = "configure_uri"
    /\ _mongo_uri' = "mongodb://host"
    /\ SetThread(t, "configure_db", "None", << >>, thread[t].ops)
    /\ UNCHANGED <<_registry, _mongo_db, loads, callVars, fnVars>>

\* configure_mongodb: _mongo_db = db_name
ConfigureDb(t) ==
    /\ thread[t].pc = "configure_db"
    /\ _mongo_db' = "kridha-proto-dev"
    /\ SetThread(t, "configure_clear", "None", << >>, thread[t].ops)
    /\ UNCHANGED <<_registry, _mongo_uri, loads, callVars, fnVars>>

\* configure_mongodb: _registry = None
ConfigureClear(t) ==
    /\ thread[t].pc = "configure_clear"
    /\ _registry' = "None"
    /\ SetThread(t, "idle", "None", << >>, thread[t].ops)
    /\ loads' = 0
    /\ UNCHANGED <<_mongo_uri, _mongo_db, callVars, fnVars>>

RegInit ==
    /\ RegistryInit
    /\ FnIdle
    /\ CallInit([garment |-> GarmentProfile, body |-> BodyProfile,
                 context |-> NoContext, fault |-> NoFault, hashOrder |-> "listed"])

RegNext ==
    \E t \in Threads :
        \/ CallGetRegistry(t) \/ CallReloadRegistry(t) \/ CallConfigureMongodb(t)
        \/ ReloadClear(t) \/ GetCheck(t) \/ GetLoad(t) \/ GetAssign(t) \/ GetReturn(t)
        \/ ConfigureUri(t) \/ ConfigureDb(t) \/ ConfigureClear(t)

RegSpec == RegInit /\ [][RegNext]_vars

(***************************************************************************)
(* The scorers and helpers called on their own, as the unit tests call     *)
(* them: one call of one of them, on a body and a garment drawn from the   *)
(* grids below.                                                            *)
(***************************************************************************)
\* Bust, waist, hip and shoulder width: the defaults (an inverted
\* triangle), hourglass, pear, apple, rectangle, plus size, plus-size
\* hourglass, plus-size apple.
FnMeasurements ==
    { <<BodyProfile.bust, BodyProfile.waist, BodyProfile.hip, BodyProfile.shoulder_width>>,
      <<3800, 2800, 3800, 1300>>, <<3400, 2800, 4000, 1300>>,
      <<3800, 3600, 3900, BodyProfile.shoulder_width>>, <<3500, 2900, 3600, 1400>>,
      <<4400, 3800, 4600, BodyProfile.shoulder_width>>, <<4400, 3400, 4600, 1500>>,
      <<4400, 4200, 4500, BodyProfile.shoulder_width>> }

FnHeights == {6100, 6299, 6300, 6600, 6900}

FnBellyZones == {0, 20, 60}

FnBodies ==
    {[BodyProfile EXCEPT !.height = h, !.bust = m[1], !.waist = m[2], !.hip = m[3],
                         !.shoulder_width = m[4], !.belly_zone = z, !.is_athletic = a] :
        h \in FnHeights, m \in FnMeasurements, z \in FnBellyZones, a \in BOOLEAN}

\* Belts: contrasting and narrow, contrasting and wide, tonal, both, none.
FnBelts ==
    {[GarmentProfile EXCEPT !.has_contrasting_belt = c, !.has_tonal_belt = t,
                            !.belt_width_cm = w] :
        c \in BOOLEAN, t \in BOOLEAN, w \in {40, 50}}

CallScoreColorBreak(g, b) ==
    /\ fn = "none"
    /\ fn' = "score_color_break"
    /\ arg' = <<g, b>>
    /\ out' = score_color_break(g, b)
    /\ UNCHANGED <<callVars, regVars>>

\* Close-fitting and looser garments, light to heavy, structured or not.
FnBodycons ==
    {[GarmentProfile EXCEPT !.expansion_rate = er, !.gsm_estimated = gsm,
                            !.is_structured = st] :
        er \in {1, 3, 5}, gsm \in {150, 199, 200, 250}, st \in BOOLEAN}

CallScoreBodyconMapping(g, b) ==
    /\ fn = "none"
    /\ fn' = "score_bodycon_mapping"
    /\ arg' = <<g, b>>
    /\ out' = score_bodycon_mapping(g, b)
    /\ UNCHANGED <<callVars, regVars>>

\* Leg landmarks, calf prominence, hip, belly projection and height.
FnLegBodies ==
    {[BodyProfile EXCEPT !.h_knee = k, !.h_calf_max = c, !.c_calf_max = p,
                         !.hip = hp, !.belly_projection = bp, !.height = h] :
        k \in {1600, 1800, 2000}, c \in {1300, 1400}, p \in {1450, 1800},
        hp \in {3800, 4200}, bp \in {0, 300}, h \in {6100, 6600}}

\* Hems given by label, and hems given by a garment length (42 and 48
\* inches on the 66 inch reference), in each silhouette that rides up
\* differently and each fabric weight class.
FnHems ==
    {[GarmentProfile EXCEPT !.hem_position = l, !.silhouette = sil,
                            !.gsm_estimated = gsm] :
        l \in {"mini", "above_knee", "knee", "below_knee", "midi", "ankle"},
        sil \in {"semi_fitted", "fitted", "a_line"}, gsm \in {100, 150, 300}}
    \cup
    {[GarmentProfile EXCEPT !.garment_length_inches = len, !.silhouette = sil,
                            !.gsm_estimated = gsm] :
        len \in {4200, 4800},
        sil \in {"semi_fitted", "fitted", "a_line"}, gsm \in {100, 150, 300}}

CallTranslateHemline(g, b) ==
    /\ fn = "none"
    /\ fn' = "translate_hemline"
    /\ arg' = <<g, b>>
    /\ out' = translate_hemline(g, b)
    /\ UNCHANGED <<callVars, regVars>>

\* The end-to-end scenario's body as written, and with the unit tests'
\* hourglass shoulders.
FnShapeBodies ==
    {[BodyProfile EXCEPT !.height = 6600, !.bust = 3800, !.waist = 2700,
                         !.hip = 3900, !.shoulder_width = sw] :
        sw \in {BodyProfile.shoulder_width, 1400}}

CallBodyShape(b) ==
    /\ fn = "none"
    /\ fn' = "body_shape"
    /\ arg' = <<b>>
    /\ out' = body_shape(b)
    /\ UNCHANGED <<callVars, regVars>>

\* Raw scores on [0, 10]: every hundredth, and the nearest value on each
\* side of every breakpoint.
FnRaws ==
    {100 * k : k \in 0..1000}
    \cup {_RESCALE_BREAKPOINTS[i][2] + d : i \in 1..7, d \in {-1, 1}}

CallRescaleDisplay(raw_ten) ==
    /\ fn = "none"
    /\ fn' = "rescale_display"
    /\ arg' = <<raw_ten>>
    /\ out' = rescale_display(raw_ten)
    /\ UNCHANGED <<callVars, regVars>>

\* Bust, waist and hip of apple-shaped bodies with a waist-to-hip ratio
\* between 0.85 and 0.88 and above 0.88, and of a rectangle, at three heights.
FnWaistBodies ==
    {[BodyProfile EXCEPT !.bust = m[1], !.waist = m[2], !.hip = m[3], !.height = h] :
        m \in {<<3800, 3510, 4000>>, <<3800, 3450, 4000>>, <<3800, 3600, 3900>>,
               <<3800, 3700, 3900>>, <<3500, 2900, 3600>>},
        h \in {6100, 6600, 6900}}

\* Waist positions with and without a contrasting belt.
FnWaists ==
    {[GarmentProfile EXCEPT !.waist_position = w, !.has_contrasting_belt = c] :
        w \in {"natural", "empire", "drop", "no_waist"}, c \in BOOLEAN}

CallScoreWaistPlacement(g, b) ==
    /\ fn = "none"
    /\ fn' = "score_waist_placement"
    /\ arg' = <<g, b>>
    /\ out' = score_waist_placement(g, b)
    /\ UNCHANGED <<callVars, regVars>>

FnInit == RegInit

FnNext ==
    \/ \E g \in FnBelts, b \in FnBodies : CallScoreColorBreak(g, b)
    \/ \E g \in FnBodycons, b \in FnBodies : CallScoreBodyconMapping(g, b)
    \/ \E g \in FnHems, b \in FnLegBodies : CallTranslateHemline(g, b)
    \/ \E b \in FnBodies \cup FnShapeBodies : CallBodyShape(b)
    \/ \E raw_ten \in FnRaws : CallRescaleDisplay(raw_ten)
    \/ \E g \in FnWaists, b \in FnWaistBodies : CallScoreWaistPlacement(g, b)

FnSpec == FnInit /\ [][FnNext]_vars

(***************************************************************************)
(* Claims                                                                  *)
(***************************************************************************)
Returned == pc = "done"

IsErrored(r) == r.reasoning # << >> /\ r.reasoning[1] = "ERROR:"

IsSkipped(r) == r.reasoning # << >> /\ r.reasoning[1] = "N/A" /\ ~r.applicable

\* C1: in every ScoreResult that score_garment returns, each principle score
\* (generic, type-specific, skipped or errored, after the structured penalty
\* reduction) lies in [-1, 1], composite_raw lies in [-1, 1], overall_score
\* lies in [0, 10] and confidence lies in [0, 1].
C1_ResultInRange ==
    Returned =>
        LET r == result[1]
        IN  /\ \A i \in DOMAIN r.principle_scores :
                   r.principle_scores[i].score \in -10000..10000
            /\ r.composite_raw \in -10000..10000
            /\ r.overall_score \in 0..100
            /\ r.confidence \in 0..100

\* A returned result of a structured garment (penalty reduction 0.30) that
\* holds a negative score, a skipped principle, an errored principle and a
\* type-specific principle.
C1_Witness ==
    /\ Returned
    /\ penalty_reduction = 30
    /\ LET ps == result[1].principle_scores
       IN  /\ \E i \in DOMAIN ps : ps[i].score < 0
           /\ \E i \in DOMAIN ps : IsSkipped(ps[i])
           /\ \E i \in DOMAIN ps : IsErrored(ps[i])
           /\ \E i \in DOMAIN ps : ps[i].name \in _TYPE_SCORER_FUNCS

\* C2: score_garment is deterministic - every later call with the same
\* garment, body and context returns the ScoreResult the first call returned
\* (scores, confidence, principle results, goal verdicts, exceptions, fixes,
\* reasoning chain), the call on the same garment object included.
C2_Deterministic ==
    (Returned /\ calls > 1 /\ context = first[1].context)
        => result[1] = first[1].result

\* The scorers Element Scoring runs for a category: the generic ones it does
\* not skip, then the type-specific ones.
ExecutedScorers(cat) ==
    ({_SCORERS[i] : i \in DOMAIN _SCORERS} \ get_scorers_to_skip(cat))
    \cup {n \in _TYPE_SCORER_FUNCS :
            \E i \in DOMAIN get_extra_scorer_names(cat) :
                get_extra_scorer_names(cat)[i] = n}

\* The principles whose scorer raised in this call's Element Scoring.
RaisedScorers == {n \in ExecutedScorers(category) : Raises(n, failing)}

\* C3: when exactly one principle scorer raises during Element Scoring, the
\* call still returns a ScoreResult - no exception leaves score_garment -
\* and in it the failing principle has score 0.0 and reasoning that starts
\* with "ERROR: ", while every other principle has the score, applicability
\* and reasoning it has when nothing fails.
C3_FailureIsolated ==
    (category # "" /\ Cardinality(RaisedScorers) = 1) =>
        /\ pc \notin {"raised_L5", "raised_L7"}
        /\ LET unfailed == ElementScoring(garment, body, category, penalty_reduction,
                                          {}, << >>)
           IN  \A i \in DOMAIN element_results :
                   IF element_results[i].name \in RaisedScorers
                   THEN /\ element_results[i].score = 0
                        /\ IsErrored(element_results[i])
                   ELSE /\ element_results[i].score = unfailed[i].score
                        /\ element_results[i].applicable = unfailed[i].applicable
                        /\ element_results[i].reasoning = unfailed[i].reasoning

ResultNamed(ps, name) == SelectSeq(ps, LAMBDA r : r.name = name)

\* C4: scoring a garment whose category is BOTTOM_PANTS yields Hemline,
\* Sleeve, V-Neck Elongation, Neckline Compound and Rise Elongation results
\* that are inapplicable with weight 0, and Pant Rise and Leg Shape results
\* that are present and applicable.
C4_PantsScorers ==
    (Returned /\ garment0.category = "bottom_pants") =>
        LET ps == result[1].principle_scores
        IN  /\ \A n \in {"Hemline", "Sleeve", "V-Neck Elongation", "Neckline Compound",
                         "Rise Elongation"} :
                   /\ ResultNamed(ps, n) # << >>
                   /\ ~ResultNamed(ps, n)[1].applicable
                   /\ ResultNamed(ps, n)[1].weight = 0
            /\ \A n \in {"Pant Rise", "Leg Shape"} :
                   /\ ResultNamed(ps, n) # << >>
                   /\ ResultNamed(ps, n)[1].applicable

\* The score a silhouette scorer returned in this call, before the penalty
\* reduction; 0 when the scorer was skipped or raised.
ReturnedScore(name) ==
    IF name \in ExecutedScorers(category) /\ ~Raises(name, failing)
    THEN RunScorer(name, garment, body)[1] ELSE 0

WorstReturnedSil ==
    Min(ReturnedScore("Tent Concealment"), ReturnedScore("Bodycon Mapping"))

\* C5 as stated: when the body has a goal among slimming, slim_hips and
\* hide_midsection, the Tent Concealment or Bodycon Mapping scorer returns a
\* score below -0.20 and the weighted composite of the applicable principles
\* is positive, composite_raw is the worse of the two scores times 0.3.
C5_DominanceOnReturnedScore ==
    (/\ Returned
     /\ has_slimming(body)
     /\ WorstReturnedSil < -2000
     /\ WeightedComposite(Active(principle_results)) > 0)
        => result[1].composite_raw = MulDiv(WorstReturnedSil, 3, 10)

\* C5 amended: the rule reads the recorded scores - after the structured
\* penalty reduction - of the applicable Tent Concealment and Bodycon Mapping
\* results: when the body has such a goal, the worse recorded score is below
\* -0.20 and the weighted composite is positive, composite_raw is that
\* recorded score times 0.3, and not the positive composite.
C5_DominanceOnRecordedScore ==
    (/\ Returned
     /\ has_slimming(body)
     /\ WorstSil(Active(principle_results)) < -2000
     /\ WeightedComposite(Active(principle_results)) > 0)
        => /\ result[1].composite_raw
                = MulDiv(WorstSil(Active(principle_results)), 3, 10)
           /\ result[1].composite_raw # WeightedComposite(Active(principle_results))

\* A returned call in which a recorded tent score of -0.50 overrode a
\* positive composite.
C5_Witness ==
    /\ Returned
    /\ has_slimming(body)
    /\ WorstSil(Active(principle_results)) = -5000
    /\ WeightedComposite(Active(principle_results)) > 0
    /\ result[1].composite_raw = -1500

\* The score the scorer of this name returned, or the 0.0 of the except
\* clause, before the penalty reduction.
UnreducedScore(name) == TryScorer(name, garment, body, failing, errmsg)[1]

\* C6: penalty_reduction is 0.30 exactly when GATE_STRUCTURED fired, which
\* is when the garment is structured or lined, and 1.0 otherwise; at 0.30
\* every negative score an executed scorer returned is recorded as 0.30
\* times that score; zero and positive scores are always recorded unchanged.
C6_PenaltyReduction ==
    (category # "") =>
        /\ penalty_reduction = (IF garment.is_structured \/ garment.has_lining
                                THEN 30 ELSE 100)
        /\ (penalty_reduction = 30)
              <=> (\E i \in DOMAIN exceptions :
                       exceptions[i].exception_id = "GATE_STRUCTURED")
        /\ \A i \in DOMAIN element_results :
               LET r == element_results[i]
               IN  r.name \in ExecutedScorers(category) =>
                       r.score = IF UnreducedScore(r.name) < 0 /\ penalty_reduction = 30
                                 THEN MulDiv(UnreducedScore(r.name), 30, 100)
                                 ELSE UnreducedScore(r.name)

\* A structured or lined garment after Element Scoring, with a negative
\* score recorded at 0.30 of what the scorer returned and a positive score
\* recorded as returned.
C6_Witness ==
    /\ category # ""
    /\ penalty_reduction = 30
    /\ \E i \in DOMAIN element_results :
           /\ element_results[i].name \in ExecutedScorers(category)
           /\ UnreducedScore(element_results[i].name) < 0
           /\ element_results[i].score = MulDiv(UnreducedScore(element_results[i].name), 30, 100)
           /\ element_results[i].score # UnreducedScore(element_results[i].name)
    /\ \E i \in DOMAIN element_results :
           /\ element_results[i].score > 0
           /\ element_results[i].score = UnreducedScore(element_results[i].name)

\* The sum of the deltas in an adjustments dict, in hundredths.
RECURSIVE DeltaSum(_)
DeltaSum(adjustments) ==
    IF adjustments = {} THEN 0
    ELSE LET a == CHOOSE x \in adjustments : TRUE
         IN  a[2] + DeltaSum(adjustments \ {a})

\* The score of every principle result, in order.
PrincipleScores(r) == [i \in DOMAIN r.principle_scores |-> r.principle_scores[i].score]

\* C7: a context whose adjustments are non-zero changes the score - the call
\* made with the context and the same call made without it differ in
\* overall_score, in composite_raw or in some principle's score.
C7_ContextChangesScore ==
    (/\ Returned
     /\ calls > 1
     /\ DeltaSum(first[1].adjustments) # 0
     /\ ~ContextGiven(context))
        => \/ first[1].result.overall_score # result[1].overall_score
           \/ first[1].result.composite_raw # result[1].composite_raw
           \/ PrincipleScores(first[1].result) # PrincipleScores(result[1])

\* C8: after score_garment returns, every field of the garment argument,
\* category included, and of the body argument has the value it had before
\* the call, and the rule registry is as it was.
C8_NoSideEffects ==
    Returned =>
        /\ garment = garment0
        /\ body = body0
        /\ _registry = "None" /\ _mongo_uri = "None" /\ _mongo_db = "None"

\* C10: when no principle is applicable after Element Scoring the call
\* returns overall_score 5.0, composite_raw 0.0 and confidence 0.50, and the
\* composite computation never divides by zero.
C10_NeutralDefault ==
    /\ pc # "raised_L7"
    /\ (Returned /\ Active(element_results) = << >>) =>
           /\ result[1].overall_score = 50
           /\ result[1].composite_raw = 0
           /\ result[1].confidence = 50

\* A call that returned although none of its principle results was
\* applicable: every scorer ran or was skipped, and none counted.
C10_Witness ==
    /\ Returned
    /\ element_results # << >>
    /\ Active(element_results) = << >>
    /\ result[1].overall_score = 50

\* C9: under every interleaving of get_registry, reload_registry and
\* configure_mongodb calls, the value a get_registry or reload_registry call
\* returns is a fully loaded registry, never None.
C9_ReturnsLoadedRegistry ==
    \A t \in Threads :
        thread[t].returned # << >> => thread[t].returned[1] \in {"json", "mongodb"}

\* The pipeline has run Layer 4: goal_verdicts holds score_goals' return.
GoalsScored == pc \in {"L5", "L6", "L7", "done", "raised_L5", "raised_L7"}

\* The names of a mapped list for which an applicable principle result exists.
PresentNames(list) ==
    {n \in {list[i] : i \in DOMAIN list} :
        \E j \in DOMAIN principle_results :
            principle_results[j].applicable /\ principle_results[j].name = n}

\* The score of the applicable principle result of that name.
ApplicableScore(n) ==
    principle_results[CHOOSE j \in DOMAIN principle_results :
        principle_results[j].applicable /\ principle_results[j].name = n].score

\* The sum of score x w over a set of principle names, for one goal.
RECURSIVE WeightedScoreSum(_, _)
WeightedScoreSum(goal, names) ==
    IF names = {} THEN 0
    ELSE LET n == CHOOSE x \in names : TRUE
         IN  ApplicableScore(n) * GoalWeights(goal, n)
             + WeightedScoreSum(goal, names \ {n})

\* The sum of w over a set of principle names, for one goal.
RECURSIVE WeightSum(_, _)
WeightSum(goal, names) ==
    IF names = {} THEN 0
    ELSE LET n == CHOOSE x \in names : TRUE
         IN  GoalWeights(goal, n) + WeightSum(goal, names \ {n})

\* C11: score_goals returns one verdict per entry of body.styling_goals, in
\* the same order; a verdict's score is (sum of score x w over the applicable
\* positive-list principles - sum of score x w over the applicable
\* negative-list principles) / (sum of w of the principles present), the
\* verdict is pass above 0.15, fail below -0.15 and caution otherwise; when
\* no mapped principle is applicable it is caution with score 0 and the
\* "No applicable principles" reason.
C11_GoalVerdicts ==
    GoalsScored =>
        /\ Len(goal_verdicts) = Len(body.styling_goals)
        /\ \A i \in DOMAIN goal_verdicts :
               LET v == goal_verdicts[i]
                   goal == body.styling_goals[i]
                   P == PresentNames(GOAL_PRINCIPLE_MAP(goal).positive)
                   N == PresentNames(GOAL_PRINCIPLE_MAP(goal).negative)
                   num == WeightedScoreSum(goal, P) - WeightedScoreSum(goal, N)
                   den == WeightSum(goal, P) + WeightSum(goal, N)
               IN  /\ v.goal = goal
                   /\ IF P \cup N = {}
                      THEN /\ v.verdict = "caution"
                           /\ v.score = 0
                           /\ v.reasoning = <<"No applicable principles for this goal">>
                      ELSE /\ den > 0
                           /\ v.score = MulDiv(num, 1, 10 * den)
                           /\ v.verdict = IF num > 1500 * den THEN "pass"
                                          ELSE IF num < -1500 * den THEN "fail"
                                          ELSE "caution"

\* Two goals scored in order, one of them with an applicable negative-list
\* principle whose score is not zero, and among the verdicts a pass or a fail.
C11_Witness ==
    /\ GoalsScored
    /\ Len(goal_verdicts) = 2
    /\ \E i \in DOMAIN goal_verdicts :
           \E n \in PresentNames(GOAL_PRINCIPLE_MAP(body.styling_goals[i]).negative) :
               ApplicableScore(n) # 0
    /\ \E i \in DOMAIN goal_verdicts : goal_verdicts[i].verdict \in {"pass", "fail"}

\* A goal none of whose mapped principles is applicable.
C11_WitnessNoneApplicable ==
    /\ GoalsScored
    /\ \E i \in DOMAIN goal_verdicts :
           /\ goal_verdicts[i].verdict = "caution"
           /\ goal_verdicts[i].reasoning = <<"No applicable principles for this goal">>

\* The applicable principle results of the returned ScoreResult that score
\* below -0.15, worst first.
WorstReturned ==
    SortedByScore(SelectSeq(result[1].principle_scores,
                            LAMBDA p : p.applicable /\ p.score < -1500))

\* C12: the fixes list holds one fix for each of the (up to 3) worst-scoring
\* applicable principles that score below -0.15, worst first, with priority 1
\* when that principle's score is below -0.30 and priority 2 otherwise.
C12_FixPerWorstPrinciple ==
    Returned =>
        /\ Len(result[1].fixes) = Min(3, Len(WorstReturned))
        /\ \A i \in DOMAIN result[1].fixes :
               /\ result[1].fixes[i].what_to_change = WorstReturned[i].name
               /\ result[1].fixes[i].priority =
                      IF WorstReturned[i].score < -3000 THEN 1 ELSE 2

(***************************************************************************)
(* C13: the fabric gates                                                   *)
(***************************************************************************)
GateIds ==
    <<"GATE_DARK_SHINY", "GATE_ALINE_SHELF", "GATE_WRAP_GAPPING",
      "GATE_STRUCTURED", "GATE_FLUID_APPLE_BELLY", "GATE_CLING_TRAP">>

GateRank(id) == CHOOSE k \in DOMAIN GateIds : GateIds[k] = id

\* The condition of gate k on the call's garment, body and resolved fabric.
GateCondition(k) ==
    CASE k = 1 -> garment.color_lightness < 25 /\ resolved.sheen_score > 50
      [] k = 2 -> garment.silhouette = "a_line" /\ resolved.drape_coefficient >= 65
      [] k = 3 -> /\ garment.neckline = "wrap"
                  /\ body.bust - body.underbust >= 600
                  /\ resolved.surface_friction < 30
      [] k = 4 -> resolved.is_structured
      [] k = 5 -> /\ resolved.drape_coefficient > 60
                  /\ body.belly_zone > 30
                  /\ garment.silhouette \notin {"fitted", "semi_fitted"}
      [] k = 6 -> /\ resolved.sheen_score < 30
                  /\ resolved.cling_risk_base > 6000
                  /\ \/ body.bust > 4200 \/ body.hip > 4400
                     \/ body.hip_zone > 50
                     \/ body.belly_zone > 50

GatesRun == pc # "L1"

\* C13: the gate's exceptions come in rule order 1..6 with no id twice, the
\* exception of a rule is in the list exactly when the rule's condition
\* holds, and the returned result carries exactly this list.
C13_GateExceptions ==
    /\ GatesRun =>
          /\ \A i \in DOMAIN exceptions :
                exceptions[i].exception_id \in {GateIds[k] : k \in DOMAIN GateIds}
          /\ \A i, j \in DOMAIN exceptions :
                i < j => GateRank(exceptions[i].exception_id)
                             < GateRank(exceptions[j].exception_id)
          /\ \A k \in DOMAIN GateIds :
                GateCondition(k)
                    <=> \E i \in DOMAIN exceptions :
                            exceptions[i].exception_id = GateIds[k]
    /\ Returned => result[1].exceptions = exceptions

\* Several gates fired together in a call that returned.
C13_Witness ==
    /\ Returned
    /\ Len(result[1].exceptions) >= 2
    /\ GateCondition(4)
    /\ \E k \in {1, 2, 3} : GateCondition(k)
    /\ \E k \in {5, 6} : GateCondition(k)

(***************************************************************************)
(* C14: classification                                                     *)
(***************************************************************************)
Classified == pc \notin {"L1", "L2"}

\* C14: classifying the same profile twice gives the same category, and
\* classifying a profile whose category has been set to classify_garment's
\* answer gives that answer again: once Layer 2 has written the category
\* into the garment, classifying the written garment returns it, in this
\* call and in a later call on the same object.
C14_ClassifyIdempotent ==
    /\ classify_garment([garment0 EXCEPT !.category = classify_garment(garment0)])
           = classify_garment(garment0)
    /\ Classified =>
          /\ garment.category = category
          /\ classify_garment(garment) = category
          /\ classify_garment(garment0) = category

\* A second call on the garment object the first call reclassified from its
\* attributes (the title holds no keyword), after its own classification.
C14_Witness ==
    /\ Classified
    /\ calls = 2
    /\ garment.category # garment0.category
    /\ garment.title # TitleNone
    /\ TitleCategory[garment.title] = "none"
    /\ garment0.rise # "none" /\ garment0.jacket_closure # "none"

(***************************************************************************)
(* C15: the belt reversal                                                  *)
(***************************************************************************)
BeltScored == fn = "score_color_break" /\ arg[1].has_contrasting_belt

Hourglass(b) == body_shape(b) = "hourglass"

\* C15 as stated: with a contrasting belt, Color Break is strictly positive
\* on every hourglass-shaped body and strictly negative on every petite
\* (under 63 inches) body.
C15_BeltOnEveryPetiteBody ==
    BeltScored =>
        /\ Hourglass(arg[2]) => out[1] > 0
        /\ arg[2].height < 6300 => out[1] < 0

\* C15, amended: with a contrasting belt, Color Break is strictly positive
\* on every hourglass-shaped body, and strictly negative on every petite
\* body that is neither hourglass-shaped nor plus-size with a belly concern
\* under 0.2.
C15_BeltReversal ==
    BeltScored =>
        /\ Hourglass(arg[2]) => out[1] > 0
        /\ ( /\ arg[2].height < 6300
             /\ ~Hourglass(arg[2])
             /\ ~((arg[2].bust > 4200 \/ arg[2].hip > 4400) /\ arg[2].belly_zone < 20) )
           => out[1] < 0

\* The scorer has run on a petite pear and returned the petite penalty.
C15_Witness ==
    /\ BeltScored
    /\ arg[2].height < 6300
    /\ body_shape(arg[2]) = "pear"
    /\ out[1] = -1500

\* The scorer has run on an hourglass body that is not petite.
C15_WitnessHourglass ==
    /\ BeltScored
    /\ Hourglass(arg[2]) /\ arg[2].height >= 6300
    /\ out[1] > 0

(***************************************************************************)
(* C16: the bodycon reversals                                              *)
(***************************************************************************)
\* The scorer has run on a thin bodycon garment: expansion rate 0.01, under
\* 200 g/m2, not structured.
ThinBodyconScored ==
    /\ fn = "score_bodycon_mapping"
    /\ arg[1].expansion_rate = 1
    /\ arg[1].gsm_estimated < 200
    /\ ~arg[1].is_structured

AthleticApple(b) == body_shape(b) = "apple" /\ b.is_athletic

PlusSize(b) == b.bust > 4200 \/ b.hip > 4400

\* C16 as stated: thin bodycon scores positive on an hourglass body,
\* negative on a pear, apple or plus-size body, and strictly positive on an
\* athletic apple.
C16_BodyconOnEveryPlusBody ==
    ThinBodyconScored =>
        /\ Hourglass(arg[2]) => out[1] > 0
        /\ AthleticApple(arg[2]) => out[1] > 0
        /\ ( /\ \/ body_shape(arg[2]) \in {"pear", "apple"}
                \/ PlusSize(arg[2])
             /\ ~AthleticApple(arg[2]) )
           => out[1] < 0

\* C16, amended: thin bodycon scores positive on an hourglass body of any
\* size, strictly positive on an athletic apple, and negative on a pear, on
\* an apple that is not athletic, and on a plus-size body that is neither
\* hourglass-shaped nor an athletic apple.
C16_BodyconReversal ==
    ThinBodyconScored =>
        /\ Hourglass(arg[2]) => out[1] > 0
        /\ AthleticApple(arg[2]) => out[1] > 0
        /\ ( /\ \/ body_shape(arg[2]) \in {"pear", "apple"}
                \/ PlusSize(arg[2]) /\ ~Hourglass(arg[2])
             /\ ~AthleticApple(arg[2]) )
           => out[1] < 0

\* The scorer has run on a plus-size athletic apple and returned the
\* athletic reversal.
C16_Witness ==
    /\ ThinBodyconScored
    /\ AthleticApple(arg[2]) /\ PlusSize(arg[2])
    /\ out[1] = 2000

\* The scorer has run on a plus-size body of no other type.
C16_WitnessPlus ==
    /\ ThinBodyconScored
    /\ PlusSize(arg[2]) /\ body_shape(arg[2]) = "rectangle"
    /\ out[1] = -4000

(***************************************************************************)
(* C17: hemline zones                                                      *)
(***************************************************************************)
HemTranslated == fn = "translate_hemline"

\* The hem was given by one of the two short labels.
ShortLabel ==
    /\ arg[1].garment_length_inches = -1
    /\ arg[1].hem_position \in {"mini", "above_knee"}

\* The hem height lies inside band k of the danger zones returned
\* (1 thigh, 2 knee, 3 calf).
InBand(k) ==
    /\ out.danger_zones[k][1] <= out.hem_from_floor
    /\ out.hem_from_floor <= out.danger_zones[k][2]

AtKneeAndSixAbove ==
    /\ out.hem_from_floor = arg[2].h_knee => out.hem_zone = "knee_danger"
    /\ out.hem_from_floor = arg[2].h_knee + 600
          => out.hem_zone \in {"above_knee", "above_knee_near"}

C17_WitnessKnee ==
    /\ HemTranslated
    /\ arg[1].garment_length_inches # -1
    /\ out.hem_from_floor = arg[2].h_knee
    /\ out.hem_zone = "knee_danger"

(***************************************************************************)
(* C18: body shape                                                         *)
(***************************************************************************)
ShapeComputed == fn = "body_shape"

\* Height 66, bust 38, waist 27, hip 39, everything else as constructed.
ScenarioBody ==
    [BodyProfile EXCEPT !.height = 6600, !.bust = 3800, !.waist = 2700, !.hip = 3900]

\* C18: the shape computed depends on the stored measurements alone (here:
\* a body with the same bust, waist, hip and shoulder width and every other
\* field at its default has the same shape), and the scenario body's shape
\* is hourglass.
C18_ScenarioBodyIsHourglass ==
    ShapeComputed =>
        /\ out = body_shape([BodyProfile EXCEPT !.bust = arg[1].bust,
                                                !.waist = arg[1].waist,
                                                !.hip = arg[1].hip,
                                                !.shoulder_width = arg[1].shoulder_width])
        /\ arg[1] = ScenarioBody => out = "hourglass"

(***************************************************************************)
(* C19: the display rescale                                                *)
(***************************************************************************)
Rescaled == fn = "rescale_display"

\* The breakpoints and their display values, in 1/10000: raw 3.5 -> 0.5,
\* 4.0 -> 1.0, 4.4 -> 4.0, 5.0 -> 5.5, 5.5 -> 7.0, 5.8 -> 8.0, 6.3 -> 9.5.
DisplayAt ==
    << <<35000, 5000>>, <<40000, 10000>>, <<44000, 40000>>, <<50000, 55000>>,
       <<55000, 70000>>, <<58000, 80000>>, <<63000, 95000>> >>

C19_WitnessAbove ==
    /\ Rescaled
    /\ arg[1] = 44001
    /\ out > 40000

(***************************************************************************)
(* C20: the weight cap                                                     *)
(***************************************************************************)
Calibrated == pc \in {"L4", "L5", "L6", "L7"}

\* C20: once Layer 3 has run, no applicable principle weighs more than 35%
\* of the summed weight of the applicable principles.
C20_WeightCapHolds ==
    Calibrated =>
        \A i \in DOMAIN principle_results :
            principle_results[i].applicable =>
                100 * principle_results[i].weight
                    <= 35 * ApplicableWeightSum(principle_results)

(***************************************************************************)
(* C21: applicability                                                      *)
(***************************************************************************)
ElementsScored == pc \notin {"L1", "L2"}

\* The i-th result of Layer 2 comes from a scorer the router skipped.
SkippedByRouter(i) ==
    /\ i <= Len(_SCORERS)
    /\ element_results[i].name \in get_scorers_to_skip(category)

\* Its reasoning holds "N/A" in any case and its score is below 0.001 in
\* magnitude.
MarkedNA(i) ==
    /\ \E k \in DOMAIN element_results[i].reasoning :
          element_results[i].reasoning[k] \in {"N/A", "n/a", "N/a", "n/A"}
    /\ -10 < element_results[i].score /\ element_results[i].score < 10

BaseWeight(i) ==
    IF i <= Len(_SCORERS) THEN _BASE_WEIGHTS(element_results[i].name)
    ELSE TYPE_SCORER_WEIGHTS[element_results[i].name]

\* The results with every inapplicable one given a score of -0.30, a weight
\* of 0.05 and a confidence of 0.50: a reader that took them into account
\* would return something else.
Loaded(results) ==
    [i \in DOMAIN results |->
        IF results[i].applicable THEN results[i]
        ELSE [results[i] EXCEPT !.score = -3000, !.weight = 500, !.confidence = 50]]

ReturnedWith(results) ==
    Layer7(garment, body, category, results, goal_verdicts, exceptions,
           body_adjusted, reasoning_chain)

\* C21: Layer 2 marks a result inapplicable, with weight 0, exactly when its
\* scorer was skipped by the router or its reasoning holds "N/A" with a score
\* under 0.001 in magnitude, and leaves every other result applicable with
\* its base weight; the composite, the confidence, the goal verdicts, the
\* zone scores and the fixes returned do not depend on the inapplicable
\* results.
C21_ApplicabilityFilter ==
    /\ ElementsScored =>
          \A i \in DOMAIN element_results :
              /\ ~element_results[i].applicable <=> (SkippedByRouter(i) \/ MarkedNA(i))
              /\ ~element_results[i].applicable => element_results[i].weight = 0
              /\ element_results[i].applicable => element_results[i].weight = BaseWeight(i)
    /\ Returned =>
          /\ ReturnedWith(Loaded(principle_results)).composite_raw = result[1].composite_raw
          /\ ReturnedWith(Loaded(principle_results)).confidence = result[1].confidence
          /\ ReturnedWith(Loaded(principle_results)).zone_scores = result[1].zone_scores
          /\ ReturnedWith(Loaded(principle_results)).fixes = result[1].fixes
          /\ score_goals(Loaded(principle_results), body, hashOrder) = result[1].goal_verdicts

\* A call returned with a skipped scorer, a scorer that answered "N/A", and a
\* scorer whose true score was zero and stayed applicable at its base weight.
C21_Witness ==
    /\ Returned
    /\ \E i \in DOMAIN element_results : SkippedByRouter(i)
    /\ \E i \in DOMAIN element_results : ~SkippedByRouter(i) /\ MarkedNA(i)
    /\ \E i \in DOMAIN element_results :
          /\ element_results[i].score = 0
          /\ element_results[i].applicable
          /\ element_results[i].weight = BaseWeight(i) /\ BaseWeight(i) > 0
    /\ body.styling_goals # << >>

\* ---- C22 ----

ClingTrapFired == \E k \in DOMAIN exceptions : exceptions[k].exception_id = "GATE_CLING_TRAP"

MatteZoneResults == {i \in DOMAIN principle_results : principle_results[i].name = "Matte Zone"}

\* C22: whenever GATE_CLING_TRAP is among the exceptions of a call, the
\* Matte Zone principle's score of that call is not positive.
C22_ClingTrapOverridesMatte ==
    (ElementsScored /\ ClingTrapFired) =>
        \A i \in MatteZoneResults : principle_results[i].score <= 0

\* The gate has fired and the Matte Zone scorer has taken its cling-trap
\* branch: the score is negative.
C22_WitnessOverridden ==
    /\ Returned /\ ClingTrapFired
    /\ \E i \in MatteZoneResults : principle_results[i].score < 0

\* ---- C23 ----

\* The applicable results of a name among the principles of the call.
ApplicableNamed(n) == {i \in DOMAIN principle_results : principle_results[i].applicable /\ principle_results[i].name = n}

InList(names, n) == \E k \in DOMAIN names : names[k] = n

\* The names a verdict lists, whatever their sign.
Listed(v) == {v.supporting_principles[k][2] : k \in DOMAIN v.supporting_principles}

\* The names a verdict lists under a sign.
ListedAs(v, sign) == {v.supporting_principles[k][2] : k \in {j \in DOMAIN v.supporting_principles : v.supporting_principles[j][1] = sign}}

MappedNames(goal) == {n \in AllScorers : InList(GOAL_PRINCIPLE_MAP(goal).positive, n) \/ InList(GOAL_PRINCIPLE_MAP(goal).negative, n)}

\* C23 as stated: the supporting principles of every goal verdict are
\* exactly the applicable principles of the goal's positive or negative
\* list whose score is above 0.05 in absolute value.
C23_SupportingByMagnitude ==
    Returned => \A k \in DOMAIN result[1].goal_verdicts :
        Listed(result[1].goal_verdicts[k]) =
            {n \in MappedNames(result[1].goal_verdicts[k].goal) :
                \E i \in ApplicableNamed(n) : principle_results[i].score > 500 \/ principle_results[i].score < -500}

\* C23, amended: the supporting principles of every goal verdict are exactly
\* the applicable principles of the goal's positive list with a score above
\* +0.05, marked "+", and those of its negative list with a score below
\* -0.05, marked as avoided.
C23_SupportingBySign ==
    Returned => \A k \in DOMAIN result[1].goal_verdicts :
        /\ ListedAs(result[1].goal_verdicts[k], "+") =
              {n \in AllScorers : /\ InList(GOAL_PRINCIPLE_MAP(result[1].goal_verdicts[k].goal).positive, n)
                                  /\ \E i \in ApplicableNamed(n) : principle_results[i].score > 500}
        /\ ListedAs(result[1].goal_verdicts[k], "-avoided") =
              {n \in AllScorers : /\ InList(GOAL_PRINCIPLE_MAP(result[1].goal_verdicts[k].goal).negative, n)
                                  /\ \E i \in ApplicableNamed(n) : principle_results[i].score < -500}
        /\ Listed(result[1].goal_verdicts[k]) =
              ListedAs(result[1].goal_verdicts[k], "+") \cup ListedAs(result[1].goal_verdicts[k], "-avoided")

\* A verdict that lists a principle of each sign and leaves out a positive
\* principle scoring below -0.05.
C23_Witness ==
    /\ Returned
    /\ \E k \in DOMAIN result[1].goal_verdicts :
          /\ ListedAs(result[1].goal_verdicts[k], "+") # {}
          /\ ListedAs(result[1].goal_verdicts[k], "-avoided") # {}
          /\ \E n \in AllScorers :
                /\ InList(GOAL_PRINCIPLE_MAP(result[1].goal_verdicts[k].goal).positive, n)
                /\ \E i \in ApplicableNamed(n) : principle_results[i].score < -500
                /\ n \notin Listed(result[1].goal_verdicts[k])

\* ---- C24 ----

\* C24: between two invalidations of the registry (reload_registry or
\* configure_mongodb setting _registry to None) at most one load is
\* performed, whatever the interleaving of the threads that request it.
C24_LoadedOnce == loads <= 1

\* One thread has loaded and returned the registry and the other then gets
\* the same registry without loading.
C24_WitnessReused ==
    /\ loads = 1
    /\ \A t \in Threads : thread[t].pc = "idle" /\ thread[t].returned = <<_registry>>
    /\ _registry # "None"

\* ---- C25 ----

\* sum(score * weight) / sum(weight) over the active results: the mean that
\* leaves the confidences out.
WeightOnlyMean(active) == MulDiv(SeqSum([i \in DOMAIN active |-> active[i].score * active[i].weight]), 1, SeqSum([i \in DOMAIN active |-> active[i].weight]))

ActiveWeight(active) == SeqSum([i \in DOMAIN active |-> active[i].weight])

\* C25: the confidence table has no entry under the normalised name of any
\* scorer, so the result of every scorer that ran has confidence 0.70 (a
\* scorer the router skipped has 0.0); hence ScoreResult.confidence is 0.70
\* whenever a principle is applicable, and the confidence-weighted composite
\* is the weight-weighted mean of the applicable scores, which composite_raw
\* returns unless silhouette dominance replaces it.
C25_ConfidenceIsDefault ==
    /\ \A k \in DOMAIN _SCORERS : PRINCIPLE_CONFIDENCE(NormalisedName(_SCORERS[k])) = 70
    /\ ElementsScored => \A i \in DOMAIN element_results :
          element_results[i].confidence = IF SkippedByRouter(i) THEN 0 ELSE 70
    /\ (Returned /\ Active(principle_results) # << >>) =>
          /\ \A i \in DOMAIN principle_results :
                principle_results[i].applicable => principle_results[i].confidence = 70
          /\ result[1].confidence = 70
          /\ ActiveWeight(Active(principle_results)) # 0 =>
                /\ WeightedComposite(Active(principle_results)) = WeightOnlyMean(Active(principle_results))
                /\ ~SilhouetteDominates(Active(principle_results), body) =>
                      result[1].composite_raw = clamp1(WeightOnlyMean(Active(principle_results)))

\* A call has returned with several applicable principles of different
\* weights and scores, a skipped scorer among the results, and no
\* silhouette dominance.
C25_Witness ==
    /\ Returned
    /\ \E i, j \in DOMAIN principle_results :
          /\ principle_results[i].applicable /\ principle_results[j].applicable
          /\ principle_results[i].weight # principle_results[j].weight
          /\ principle_results[i].score > 0 /\ principle_results[j].score < 0
    /\ \E i \in DOMAIN element_results : SkippedByRouter(i)
    /\ Len(element_results) > Len(_SCORERS)
    /\ ~SilhouetteDominates(Active(principle_results), body)
    /\ result[1].composite_raw # 0

\* ---- C26 ----

AdvisoryGates == <<"GATE_DARK_SHINY", "GATE_ALINE_SHELF", "GATE_WRAP_GAPPING", "GATE_FLUID_APPLE_BELLY", "GATE_CLING_TRAP">>

IsAdvisory(e) == \E k \in DOMAIN AdvisoryGates : AdvisoryGates[k] = e.exception_id

\* The exceptions of the call with the five advisory gates taken out.
WithoutAdvisory(ex) == SelectSeq(ex, LAMBDA e : ~IsAdvisory(e))

\* The exceptions of the call with all five advisory gates put in.
WithEveryAdvisory(ex) == WithoutAdvisory(ex) \o [k \in DOMAIN AdvisoryGates |-> ExceptionTriggered(AdvisoryGates[k], "any", 80)]

\* What Layers 3 to 7 return from the results of Element Scoring, under a
\* list of exceptions.
ScoredFrom(elements, ex) == With(Calibrate(elements, body.styling_goals, 1), LAMBDA cal : Layer7(garment, body, category, cal, score_goals(cal, body, hashOrder), ex, body_adjusted, reasoning_chain))

\* The call's ScoreResult had run_fabric_gates returned the list ex.
ScoredUnder(ex) == ScoredFrom(ElementScoring(garment, body, category, get_structured_penalty_reduction(ex), failing, errmsg), ex)

SameScoring(r) ==
    /\ r.principle_scores = result[1].principle_scores
    /\ r.goal_verdicts = result[1].goal_verdicts
    /\ r.fixes = result[1].fixes
    /\ r.composite_raw = result[1].composite_raw
    /\ r.overall_score = result[1].overall_score

\* C26: every principle score and weight, goal verdict, fix, composite_raw
\* and overall_score of a call is the same with none and with all of
\* GATE_DARK_SHINY, GATE_ALINE_SHELF, GATE_WRAP_GAPPING,
\* GATE_FLUID_APPLE_BELLY and GATE_CLING_TRAP among the exceptions: only the
\* penalty reduction of GATE_STRUCTURED is read from them.
C26_AdvisoryGates ==
    Returned =>
        /\ SameScoring(ScoredUnder(WithoutAdvisory(exceptions)))
        /\ SameScoring(ScoredUnder(WithEveryAdvisory(exceptions)))

\* A call has returned with an advisory gate fired, no structured gate, a
\* negative applicable score, a fix and a goal verdict.
C26_Witness ==
    /\ Returned
    /\ \E k \in DOMAIN exceptions : IsAdvisory(exceptions[k])
    /\ penalty_reduction = 100
    /\ \E i \in DOMAIN principle_results : principle_results[i].applicable /\ principle_results[i].score < 0
    /\ result[1].fixes # << >>
    /\ result[1].goal_verdicts # << >>

\* ---- C27 ----

StructuredGateFired == \E k \in DOMAIN exceptions : exceptions[k].exception_id = "GATE_STRUCTURED"

SilhouetteResults == {i \in DOMAIN principle_results : principle_results[i].name \in {"Tent Concealment", "Bodycon Mapping"}}

\* C27: when GATE_STRUCTURED has fired (the garment is structured or lined)
\* no recorded Tent Concealment or Bodycon Mapping score is below -0.20,
\* silhouette dominance does not apply, and composite_raw is the weighted
\* average of the applicable principles.
C27_NoDominanceWhenStructured ==
    /\ (ElementsScored /\ StructuredGateFired) =>
          /\ garment.is_structured \/ garment.has_lining
          /\ \A i \in SilhouetteResults : principle_results[i].score >= -2000
          /\ ~SilhouetteDominates(Active(principle_results), body)
    /\ (Returned /\ StructuredGateFired /\ Active(principle_results) # << >>) =>
          result[1].composite_raw = clamp1(WeightedComposite(Active(principle_results)))

\* A structured tent on an hourglass body with a slimming goal: the lowest
\* score the scorer returns, -0.60, is recorded as -0.18, and the positive
\* composite is returned.
C27_Witness ==
    /\ Returned /\ StructuredGateFired
    /\ has_slimming(body)
    /\ \E i \in SilhouetteResults : principle_results[i].applicable /\ principle_results[i].score = -1800
    /\ result[1].composite_raw > 0

\* ---- C28 ----

HemZones == {"above_knee", "above_knee_near", "knee_danger", "safe_zone", "calf_danger", "below_calf", "ankle", "floor"}

\* The hem lies below the knee-danger band.
BelowKneeBand == out.hem_from_floor < out.danger_zones[2][1]

\* C28: translate_hemline returns one of above_knee, above_knee_near,
\* knee_danger, safe_zone, calf_danger, below_calf, ankle and floor, never
\* collapsed_zone: with a safe zone of size zero or less, a hem below the
\* knee-danger band is not above the top of the calf-danger band.
C28_CollapsedZoneUnreachable ==
    HemTranslated =>
        /\ out.hem_zone \in HemZones
        /\ (out.safe_zone_size <= 0 /\ BelowKneeBand) =>
              /\ out.hem_from_floor <= out.danger_zones[3][2]
              /\ out.hem_zone \in {"calf_danger", "below_calf", "ankle", "floor"}
        /\ (out.safe_zone_size > 0 /\ BelowKneeBand /\ out.hem_from_floor > out.danger_zones[3][2]) =>
              out.hem_zone = "safe_zone"

\* The calf-danger band reaches up into the knee-danger band, no safe zone
\* is left, and a hem below the knee-danger band is classified calf_danger.
C28_Witness ==
    /\ HemTranslated
    /\ out.safe_zone_size <= 0 /\ out.safe_zone = << >>
    /\ BelowKneeBand
    /\ out.hem_zone = "calf_danger"

\* A hem in a safe zone of two inches or less.
C28_WitnessSafeZone ==
    /\ HemTranslated
    /\ out.safe_zone_size > 0 /\ out.safe_zone_size <= 200
    /\ out.hem_zone = "safe_zone"

\* ---- C29 ----

WaistScored == fn = "score_waist_placement"

\* The call was made for an apple-shaped body with a waist-to-hip ratio above
\* 0.85, on a garment with a natural waist and a contrasting belt.
AppleBeltedNatural ==
    /\ WaistScored
    /\ body_shape(arg[2]) = "apple" /\ whr(arg[2]) > 8500
    /\ arg[1].waist_position = "natural" /\ arg[1].has_contrasting_belt

\* The score of the same garment without the belt, on the same body.
UnbeltedScore == score_waist_placement([arg[1] EXCEPT !.has_contrasting_belt = FALSE], arg[2])[1]

\* C29: for every apple-shaped body with a waist-to-hip ratio above 0.85 and
\* a garment with a natural waist, the Waist Placement score with a
\* contrasting belt is strictly lower than the score of the same garment
\* without the belt.
C29_BeltLowersWaistScore == AppleBeltedNatural => out[1] < UnbeltedScore

\* The belt lowered the score by 0.30: a waist-to-hip ratio above 0.88.
C29_WitnessPenalty ==
    /\ AppleBeltedNatural /\ whr(arg[2]) > 8800
    /\ out[1] = UnbeltedScore - 3000

\* ---- C30 ----

\* An applicable result of that name is among the principles returned.
ApplicableReturned(n) == \E i \in DOMAIN result[1].principle_scores : result[1].principle_scores[i].name = n /\ result[1].principle_scores[i].applicable

\* body_adjusted holds what translate_sleeve returns for the call's garment
\* and body.
SleeveComputed ==
    /\ result[1].body_adjusted.sleeve_endpoint_position = translate_sleeve(garment, body).endpoint_position
    /\ result[1].body_adjusted.perceived_arm_width = translate_sleeve(garment, body).perceived_width
    /\ result[1].body_adjusted.arm_width_delta = translate_sleeve(garment, body).delta_vs_actual

\* body_adjusted holds what translate_waistline returns for the call's
\* garment and body.
WaistComputed ==
    /\ result[1].body_adjusted.visual_waist_height = translate_waistline(garment, body).visual_waist_height
    /\ result[1].body_adjusted.visual_leg_ratio = translate_waistline(garment, body).visual_leg_ratio
    /\ result[1].body_adjusted.proportion_improvement = translate_waistline(garment, body).proportion_improvement

\* C30: in every ScoreResult, an applicable Hemline principle comes with a
\* non-empty body_adjusted.hem_zone, an applicable Sleeve principle with the
\* sleeve fields of body_adjusted computed, and an applicable Waist Placement
\* principle with the waist fields of body_adjusted computed, whatever the
\* garment's category.
C30_GeometryMatchesScoring ==
    Returned =>
        /\ ApplicableReturned("Hemline") => result[1].body_adjusted.hem_zone # ""
        /\ ApplicableReturned("Sleeve") => SleeveComputed
        /\ ApplicableReturned("Waist Placement") => WaistComputed

\* A dress has returned with the three principles applicable and the three
\* groups of fields computed.
C30_WitnessDress ==
    /\ Returned /\ category = "dress"
    /\ ApplicableReturned("Hemline") /\ ApplicableReturned("Sleeve") /\ ApplicableReturned("Waist Placement")
    /\ result[1].body_adjusted.hem_zone # "" /\ SleeveComputed /\ WaistComputed

=============================================================================
